---------------------------- MODULE Spec2Model ----------------------------
(***************************************************************************)
(* Scavenger-hunt game server: the temporal challenge store                *)
(* (models/challenge.rs, TemporalChallenge) and the per-participant        *)
(* waypoint progression (handlers/waypoints.rs, ChallengeParticipant).     *)
(*                                                                         *)
(* Every handler is an async function: each .await on the database or on   *)
(* the external service is a point where another request may run, so a     *)
(* handler is a sequence of atomic steps, one per database statement.      *)
(* The database is PostgreSQL at its default READ COMMITTED level.         *)
(***************************************************************************)
EXTENDS Integers, Sequences, FiniteSets, TLC

(***************************************************************************)
(* Bounds of the model.                                                    *)
(***************************************************************************)
MaxChallenges == 2      \* challenge ids handed out by challenge_id_seq
MaxTime == 3            \* last clock value at which a transaction may begin
MaxClock == 7           \* clock value the row writes of the requests taken up must not pass

(***************************************************************************)
(* Values.                                                                 *)
(***************************************************************************)
NULL == 0               \* Option::None / SQL NULL of a timestamp or an id
MaxParticipants == 2    \* rows inserted into challenge_participants
Duration == 2           \* duration_minutes of the challenge of table challenges
Callers == {"c1", "c2"} \* concurrent callers of the store
Users == {1, 2}         \* user ids
Creators == {1}         \* the users that create challenges

VARIABLES
    now,                 \* the clock: Utc::now() and the database's NOW()
    temporal_challenges, \* committed rows of table temporal_challenges
    challenge_id_seq,    \* sequence challenge_id_seq (last value handed out)
    challenge_version_seq, \* serial behind challenge_version_id
    call,                \* per caller: the call in progress and its transaction
    challenge_participants, \* rows of table challenge_participants
    req,                 \* per request slot: the waypoint request in progress
    job,                 \* one ImageService::validate_image call
    candidate,           \* a waypoint list given to validate_waypoint_sequences
    trip,                \* a create request, the payload stored for it, and the payload read
    fix,                 \* one LocationService::validate_waypoint_location call
    legacy               \* a row of table challenges, its participants, the requests on it

storeVars == <<temporal_challenges, challenge_id_seq, challenge_version_seq, call>>
huntVars == <<challenge_participants, req>>
imageVars == <<job>>
inputVars == <<candidate, trip, fix, legacy>>
vars == <<now, storeVars, huntVars, imageVars, inputVars>>
outsideStore == <<huntVars, imageVars, inputVars>>
outsideHunt == <<storeVars, imageVars, inputVars>>
outsideImage == <<now, storeVars, huntVars, inputVars>>
outsideInput == <<now, storeVars, huntVars, imageVars>>

(***************************************************************************)
(* validate_waypoint_sequences: sort the sequence numbers, then require    *)
(* the i-th (0-based) to be i + 1.                                         *)
(***************************************************************************)
RECURSIVE Insert(_, _)
Insert(x, s) ==
    IF s = <<>> THEN <<x>>
    ELSE IF x <= Head(s) THEN <<x>> \o s
    ELSE <<Head(s)>> \o Insert(x, Tail(s))

\* A validation that reads the list in the order given.
Unsorted(s) == s

RECURSIVE Sort(_)
Sort(s) == IF s = <<>> THEN <<>> ELSE Insert(Head(s), Sort(Tail(s)))

validate_waypoint_sequences(waypoints) ==
    IF waypoints = <<>> THEN "ValidationFailed"
    ELSE LET sequences == Sort(waypoints)
         IN  IF \E i \in 1..Len(sequences) : sequences[i] # i
             THEN "InvalidWaypointSequence"
             ELSE "Ok"

\* The waypoint lists (sequence numbers only) of the create requests made
\* of the store: a valid one in both orders, and one of each refused kind.
Requests == {<<>>, <<1, 2>>, <<2, 1>>, <<1, 3>>}

(***************************************************************************)
(* Rows and payloads.                                                      *)
(***************************************************************************)
\* ChallengeData, the JSON payload of a version.
ChallengeData(moderator, started, active, waypoints, notes) ==
    [challenge_moderator |-> moderator, actual_start_time |-> started,
     active |-> active, waypoints |-> waypoints, version_notes |-> notes]

\* A row of temporal_challenges as inserted: updated_at is the column's
\* default, the NOW() of the insert, as start_at is.
TemporalChallenge(id, version, start, end, data) ==
    [challenge_id |-> id, challenge_version_id |-> version,
     start_at |-> start, end_at |-> end, updated_at |-> start, challenge |-> data]

NoRow == TemporalChallenge(NULL, NULL, NULL, NULL, ChallengeData(NULL, NULL, FALSE, <<>>, "none"))

\* The rows a query "WHERE challenge_id = $1 AND end_at IS NULL" matches.
CurrentRows(rows, id) == {r \in rows : r.challenge_id = id /\ r.end_at = NULL}

VersionsOf(rows, id) == {r \in rows : r.challenge_id = id}

\* TemporalChallenge::get_by_version_id: the rows with that version id
\* (none: ChallengeNotFound).
get_by_version_id(rows, version_id) == {r \in rows : r.challenge_version_id = version_id}

\* A caller between calls; `result` and `version` are what its last call
\* returned, `self` the challenge it was made on, `moderator_id` the user
\* a start_challenge call was made for.
IdleCall ==
    [pc |-> "idle", self |-> NoRow, data |-> NoRow.challenge, tx_now |-> NULL,
     target |-> {}, closed |-> {}, version |-> NULL, result |-> "none",
     overlapped |-> {}, moderator_id |-> NULL]

\* A call that has returned: its result, and of its transaction only the
\* challenge and the version id it was about.
DoneCall(t, result, version) ==
    [IdleCall EXCEPT !.result = result, !.version = version,
                     !.self = [NoRow EXCEPT !.challenge_id = t.self.challenge_id],
                     !.overlapped = t.overlapped, !.moderator_id = t.moderator_id]

\* Caller c starts a new call, which ends or goes on as `t`: the calls that
\* overlapped its previous one no longer count it.
StartCall(c, t) ==
    [q \in Callers |-> IF q = c THEN t ELSE [call[q] EXCEPT !.overlapped = @ \ {c}]]

\* The table after a transaction that is dropped without commit.
Rollback(rows, t) == rows

StoreInit ==
    /\ temporal_challenges = {}
    /\ challenge_id_seq = 0
    /\ challenge_version_seq = 0
    /\ call = [c \in Callers |-> IdleCall]

(***************************************************************************)
(* TemporalChallenge::create_new: validate, then in one transaction take   *)
(* nextval('challenge_id_seq') and insert the first version.  The row's    *)
(* start_at and end_at are the table's defaults (NOW() and NULL).  A value *)
(* taken from a sequence stays taken when the transaction is rolled back.  *)
(***************************************************************************)
\* A sequence that gives a value back when the transaction that took it is
\* rolled back.
SequenceGivenBack(seq, id) == id - 1

\* The sequence after the transaction that took `id` from it is rolled back.
SequenceAfterRollback(seq, id) == seq

\* Lines 657-706: validate, begin, nextval, build the payload.
create_new(c, moderator_id, request) ==
    /\ call[c].pc = "idle"
    /\ challenge_id_seq < MaxChallenges
    /\ now <= MaxTime
    /\ LET verdict == validate_waypoint_sequences(request)
       IN  IF verdict # "Ok"
           THEN /\ call' = StartCall(c, DoneCall(IdleCall, verdict, NULL))
                /\ UNCHANGED <<now, challenge_id_seq>>
           ELSE LET row == TemporalChallenge(challenge_id_seq + 1, NULL, now, NULL,
                               ChallengeData(moderator_id, NULL, TRUE, request,
                                             "Initial version"))
                IN  /\ challenge_id_seq' = challenge_id_seq + 1
                    /\ now' = now + 1
                    /\ call' = StartCall(c, [IdleCall EXCEPT !.pc = "creating",
                                                             !.self = row,
                                                             !.tx_now = now])
    /\ UNCHANGED <<temporal_challenges, challenge_version_seq>>
    /\ UNCHANGED outsideStore

\* What the INSERT and the commit of create_new can come to.
CreateOutcomes == {"Ok", "InsertFailed", "CommitFailed"}

\* Lines 708-727: the INSERT (it takes the version id) and tx.commit(); a
\* failure of either drops the transaction.
insert_first_version(c, outcome) ==
    /\ call[c].pc = "creating"
    /\ LET row == [call[c].self EXCEPT !.challenge_version_id = challenge_version_seq + 1]
       IN  IF outcome = "Ok"
           THEN /\ temporal_challenges' = temporal_challenges \cup {row}
                /\ challenge_version_seq' = challenge_version_seq + 1
                /\ call' = [call EXCEPT ![c] = DoneCall(call[c], "Ok",
                                                        row.challenge_version_id)]
                /\ UNCHANGED challenge_id_seq
           ELSE /\ temporal_challenges' = Rollback(temporal_challenges, call[c])
                /\ challenge_version_seq' =
                       challenge_version_seq + (IF outcome = "CommitFailed" THEN 1 ELSE 0)
                /\ challenge_id_seq' =
                       SequenceAfterRollback(challenge_id_seq, call[c].self.challenge_id)
                /\ call' = [call EXCEPT ![c] = DoneCall(call[c], "DatabaseError", NULL)]
    /\ UNCHANGED now
    /\ UNCHANGED outsideStore

(***************************************************************************)
(* TemporalChallenge::get_current_by_id: the caller's snapshot `self`.     *)
(***************************************************************************)
get_current_by_id(c, challenge_id) ==
    /\ call[c].pc = "idle"
    /\ IF CurrentRows(temporal_challenges, challenge_id) = {}
       THEN call' = StartCall(c, DoneCall(IdleCall, "ChallengeNotFound", NULL))
       ELSE \E r \in CurrentRows(temporal_challenges, challenge_id) :
                call' = StartCall(c, [IdleCall EXCEPT !.pc = "read", !.self = r])
    /\ UNCHANGED <<now, temporal_challenges, challenge_id_seq, challenge_version_seq>>
    /\ UNCHANGED outsideStore

(***************************************************************************)
(* TemporalChallenge::create_new_version, statement by statement.          *)
(*   pool.begin()      : the transaction starts; NOW() is fixed to the     *)
(*                       time of its start for all its statements.         *)
(*   UPDATE ... SET end_at = NOW() WHERE challenge_id = $1 AND end_at IS   *)
(*                       NULL : the statement first finds the rows that    *)
(*                       match in its snapshot, then locks each one; a row *)
(*                       another open transaction has updated makes it     *)
(*                       wait, and after the wait the WHERE clause is      *)
(*                       evaluated again on the row as committed.          *)
(*   INSERT            : the new row, start_at = NOW(), end_at = NULL.     *)
(*   tx.commit()       : both changes become visible together.  An error   *)
(*                       return (the ? operator) drops tx: a rollback.     *)
(***************************************************************************)
OpenTx == {"begun", "waiting", "updated", "inserted"}

\* Lines 781-790: set the notes on the payload and begin the transaction.
BeginVersion(c, t, updated_data, version_notes) ==
    /\ now <= MaxTime
    /\ LET open == {q \in Callers \ {c} : call[q].pc \in OpenTx}
       IN  call' = [q \in Callers |->
                     IF q = c
                     THEN [t EXCEPT !.pc = "begun",
                               !.data = [updated_data EXCEPT !.version_notes = version_notes],
                               !.tx_now = now, !.overlapped = open]
                     ELSE IF q \in open
                     THEN [call[q] EXCEPT !.overlapped = @ \cup {c}]
                     ELSE call[q]]
    /\ now' = now + 1
    /\ UNCHANGED <<temporal_challenges, challenge_id_seq, challenge_version_seq>>
    /\ UNCHANGED outsideStore

\* A direct call with an edited payload (here: the active flag).
create_new_version(c, active) ==
    /\ call[c].pc = "read"
    /\ BeginVersion(c, call[c], [call[c].self.challenge EXCEPT !.active = active],
                    "edited")

\* A check that lets every user through.
is_anyone(challenge_data, moderator_id) == TRUE

\* Line 831: challenge_data.challenge_moderator != moderator_id, negated.
is_moderator(challenge_data, moderator_id) ==
    challenge_data.challenge_moderator = moderator_id

\* TemporalChallenge::start_challenge: three checks on the snapshot, then
\* create_new_version with actual_start_time = Utc::now().
start_challenge(c, moderator_id) ==
    /\ call[c].pc = "read"
    /\ LET challenge_data == call[c].self.challenge
           t == [call[c] EXCEPT !.moderator_id = moderator_id]
           refuse(e) == /\ call' = [call EXCEPT ![c] = DoneCall(t, e, NULL)]
                        /\ UNCHANGED <<now, temporal_challenges, challenge_id_seq,
                                       challenge_version_seq>>
                        /\ UNCHANGED outsideStore
       IN  IF ~is_moderator(challenge_data, moderator_id)
           THEN refuse("NotModerator")
           ELSE IF ~challenge_data.active
           THEN refuse("ChallengeNotActive")
           ELSE IF challenge_data.actual_start_time # NULL
           THEN refuse("ChallengeAlreadyStarted")
           ELSE BeginVersion(c, t, [challenge_data EXCEPT !.actual_start_time = now],
                             "Challenge started")

\* Whether another open transaction holds the lock of one of the rows.
RowLocked(c, versions) ==
    \E q \in Callers \ {c} :
        call[q].pc \in {"updated", "inserted"} /\ call[q].closed \cap versions # {}

\* The rows of `versions` that still match end_at IS NULL once locked.
StillCurrent(rows, versions) ==
    {v \in versions : \E r \in rows : r.challenge_version_id = v /\ r.end_at = NULL}

\* The UPDATE finds its rows (version ids) in the statement's snapshot and
\* closes them, or waits when another open transaction has locked one.
end_current_version(c) ==
    /\ call[c].pc = "begun"
    /\ LET target == {r.challenge_version_id :
                        r \in CurrentRows(temporal_challenges, call[c].self.challenge_id)}
       IN  IF RowLocked(c, target)
           THEN call' = [call EXCEPT ![c].pc = "waiting", ![c].target = target]
           ELSE call' = [call EXCEPT ![c].pc = "updated", ![c].closed = target]
    /\ UNCHANGED <<now, temporal_challenges, challenge_id_seq, challenge_version_seq>>
    /\ UNCHANGED outsideStore

\* The lock is released: the waiting UPDATE closes the rows that still match.
end_current_version_resume(c) ==
    /\ call[c].pc = "waiting"
    /\ ~RowLocked(c, call[c].target)
    /\ call' = [call EXCEPT ![c].pc = "updated", ![c].target = {},
                   ![c].closed = StillCurrent(temporal_challenges, call[c].target)]
    /\ UNCHANGED <<now, temporal_challenges, challenge_id_seq, challenge_version_seq>>
    /\ UNCHANGED outsideStore

\* The uniqueness constraint on the current version of a challenge_id: an
\* insert of a row with end_at NULL is refused while a committed current row
\* exists that the inserting transaction has not itself closed.
current_version_conflict(rows, id, closed) ==
    \E r \in CurrentRows(rows, id) : r.challenge_version_id \notin closed

\* A commit that loses the UPDATE: the new row is added, no row is closed.
CommitWithoutClosing(rows, t) ==
    rows \cup {TemporalChallenge(t.self.challenge_id, t.version, t.tx_now, NULL, t.data)}

\* A commit that writes the new payload into the current row.
CommitInPlace(rows, t) ==
    {IF r.challenge_version_id \in t.closed
     THEN [r EXCEPT !.updated_at = t.tx_now, !.challenge = t.data] ELSE r : r \in rows}

\* The table after tx.commit(): the closed rows end at the transaction's
\* NOW() (the UPDATE sets end_at and updated_at), and the new row starts
\* there.
Commit(rows, t) ==
    {IF r.challenge_version_id \in t.closed
     THEN [r EXCEPT !.end_at = t.tx_now, !.updated_at = t.tx_now] ELSE r : r \in rows}
    \cup {TemporalChallenge(t.self.challenge_id, t.version, t.tx_now, NULL, t.data)}

\* The INSERT; ok = FALSE is a failure of the statement itself.
insert_new_version(c, ok) ==
    /\ call[c].pc = "updated"
    /\ ~\E q \in Callers \ {c} :
           call[q].pc = "inserted" /\ call[q].self.challenge_id = call[c].self.challenge_id
    /\ IF ok /\ ~current_version_conflict(temporal_challenges,
                     call[c].self.challenge_id, call[c].closed)
       THEN /\ call' = [call EXCEPT ![c].pc = "inserted",
                                    ![c].version = challenge_version_seq + 1]
            /\ challenge_version_seq' = challenge_version_seq + 1
            /\ UNCHANGED temporal_challenges
       ELSE /\ call' = [call EXCEPT ![c] = DoneCall(call[c], "DatabaseError", NULL)]
            /\ temporal_challenges' = Rollback(temporal_challenges, call[c])
            /\ challenge_version_seq' = challenge_version_seq + (IF ok THEN 1 ELSE 0)
    /\ UNCHANGED <<now, challenge_id_seq>>
    /\ UNCHANGED outsideStore

\* tx.commit(); ok = FALSE is a commit that fails.
commit(c, ok) ==
    /\ call[c].pc = "inserted"
    /\ IF ok
       THEN /\ temporal_challenges' = Commit(temporal_challenges, call[c])
            /\ call' = [call EXCEPT ![c] = DoneCall(call[c], "Ok", call[c].version)]
       ELSE /\ temporal_challenges' = Rollback(temporal_challenges, call[c])
            /\ call' = [call EXCEPT ![c] = DoneCall(call[c], "DatabaseError",
                                                     call[c].version)]
    /\ UNCHANGED <<now, challenge_id_seq, challenge_version_seq>>
    /\ UNCHANGED outsideStore

StoreNext ==
    \/ \E c \in Callers, m \in Creators, request \in Requests : create_new(c, m, request)
    \/ \E c \in Callers, outcome \in CreateOutcomes : insert_first_version(c, outcome)
    \/ \E c \in Callers, id \in 1..MaxChallenges : get_current_by_id(c, id)
    \/ \E c \in Callers, active \in BOOLEAN : create_new_version(c, active)
    \/ \E c \in Callers, m \in Users : start_challenge(c, m)
    \/ \E c \in Callers : end_current_version(c)
    \/ \E c \in Callers : end_current_version_resume(c)
    \/ \E c \in Callers, ok \in BOOLEAN : insert_new_version(c, ok)
    \/ \E c \in Callers, ok \in BOOLEAN : commit(c, ok)

(***************************************************************************)
(* The waypoint progression of a participant (handlers/waypoints.rs).      *)
(*                                                                         *)
(* Table waypoints is written only when a challenge is created; the hunt   *)
(* reads it.  Two challenges of two waypoints each; in challenge "A" the   *)
(* waypoint ids are in the opposite order of the sequence numbers.         *)
(***************************************************************************)
Waypoint(id, challenge, sequence, radius) ==
    [waypoint_id |-> id, challenge_id |-> challenge,
     waypoint_sequence |-> sequence, radius_meters |-> radius]

waypoints ==
    {Waypoint(1, "A", 2, 2), Waypoint(2, "A", 1, 2),
     Waypoint(3, "B", 1, 2), Waypoint(4, "B", 2, 2)}

\* The waypoint ids a request may name: those of the table and one of none.
WaypointIds == {w.waypoint_id : w \in waypoints} \cup {5}

\* Waypoint::get_by_id: the rows with that id (none: WaypointNotFound).
WaypointsById(id) == {w \in waypoints : w.waypoint_id = id}

\* A lookup by challenge alone: any other waypoint of the challenge.
get_other_waypoint(current) ==
    {w \in waypoints : /\ w.challenge_id = current.challenge_id
                       /\ w.waypoint_sequence # current.waypoint_sequence}

\* Waypoint::get_next_waypoint: the rows of the same challenge with the
\* next sequence number (fetch_optional: one of them, or None).
get_next_waypoint(current) ==
    {w \in waypoints : /\ w.challenge_id = current.challenge_id
                       /\ w.waypoint_sequence = current.waypoint_sequence + 1}

\* Challenge::get_first_waypoint: ORDER BY waypoint_sequence LIMIT 1.
get_first_waypoint(challenge) ==
    {w \in waypoints : /\ w.challenge_id = challenge
                       /\ \A v \in waypoints : v.challenge_id = challenge
                              => w.waypoint_sequence <= v.waypoint_sequence}

\* A reported location, by what LocationService computes of it: whether
\* validate_coordinates accepts it, and its distance from the target.
Locations ==
    {[coordinates_ok |-> TRUE, distance |-> d] : d \in {2, 3}}
    \cup {[coordinates_ok |-> FALSE, distance |-> 0]}

\* A request that has not reached the validator carries no location.
NoLocation == [coordinates_ok |-> FALSE, distance |-> 0]

\* f64::NAN, which no comparison admits.
NaN == 999

f64_lt(a, b) == a # NaN /\ b # NaN /\ a < b
f64_gt(a, b) == a # NaN /\ b # NaN /\ a > b
f64_le(a, b) == a # NaN /\ b # NaN /\ a <= b

\* A location anywhere: one that is_valid for every radius.
is_valid_anywhere(distance, radius_meters) == TRUE

\* LocationService::validate_waypoint_location: is_valid.
is_valid(distance, radius_meters) == f64_le(distance, radius_meters)

Participants == {"p1"}
ParticipantChallenge == [p \in Participants |-> "A"]
Slots == {"r1", "r2"}           \* concurrent requests
SlotParticipant == [r \in Slots |-> "p1"]

\* A row of challenge_participants (the columns the hunt writes).
ChallengeParticipant(waypoint_id, state, updated) ==
    [current_waypoint_id |-> waypoint_id, current_state |-> state,
     last_updated |-> updated]

\* A slot between requests.  The fields are those of its last request: the
\* waypoint it named, the copy of the row it read, the location the validator
\* was given, the resolution of the external service, the response (`result`),
\* whether the validator was consulted and a request sent to the external
\* service, the audit records written, what advance_to_next_waypoint returned.
IdleReq ==
    [pc |-> "idle", kind |-> "none", waypoint_id |-> NULL,
     participant |-> ChallengeParticipant(NULL, "Presented", NULL),
     location |-> NoLocation, resolution |-> "none",
     result |-> "none", validated |-> FALSE, audited |-> {},
     audit_failed |-> FALSE, sent |-> FALSE, advanced |-> "none"]

\* The participants of a started challenge stand at its first waypoint,
\* Presented (Challenge::start_challenge, lines 338-354).
HuntInit ==
    /\ challenge_participants =
           [p \in Participants |->
               LET first == CHOOSE w \in get_first_waypoint(ParticipantChallenge[p]) : TRUE
               IN  ChallengeParticipant(first.waypoint_id, "Presented", 0)]
    /\ req = [r \in Slots |-> IdleReq]

\* Row writes still to come from the requests in progress.
PendingWrites ==
    LET n(r) == CASE req[r].pc = "checkin_update" -> 1
                  [] req[r].pc = "validate_image" -> 2
                  [] req[r].pc = "verified_update" -> 2
                  [] req[r].pc = "advance" -> 1
                  [] OTHER -> 0
        RECURSIVE Sum(_)
        Sum(S) == IF S = {} THEN 0
                  ELSE LET r == CHOOSE x \in S : TRUE IN n(r) + Sum(S \ {r})
    IN  Sum(Slots)

\* An UPDATE that matches the row only while it is Presented.
update_presented_only(rows, p, waypoint_id, state) ==
    IF rows[p].current_state = "Presented"
    THEN [rows EXCEPT ![p] = ChallengeParticipant(waypoint_id, state, now)]
    ELSE rows

\* ChallengeParticipant::update_waypoint_state: one UPDATE of the row by
\* participant_id, last_updated = Utc::now().
update_waypoint_state(rows, p, waypoint_id, state) ==
    [rows EXCEPT ![p] = ChallengeParticipant(waypoint_id, state, now)]

\* A request that ends in its first step with `result`.
Refuse(r, kind, w, result) ==
    /\ req' = [req EXCEPT ![r] = [IdleReq EXCEPT !.kind = kind, !.waypoint_id = w,
                                                !.result = result]]
    /\ UNCHANGED <<now, challenge_participants>>

\* The participant's challenge is the waypoint's (lines 88 and 247).
belongs_to_challenge(p, waypoint) == ParticipantChallenge[p] = waypoint.challenge_id

\* A check that lets every waypoint of the challenge through.
is_any_waypoint(participant, w) == TRUE

\* Line 98: the waypoint is the participant's current one.
is_current_waypoint(participant, w) == participant.current_waypoint_id = w

\* A check of the waypoint that does not look at the state.
is_at_waypoint(participant, w) == participant.current_waypoint_id = w

\* Lines 257-258: the participant is checked in to the waypoint.
is_checked_in(participant, w) ==
    /\ participant.current_waypoint_id = w
    /\ participant.current_state = "CheckedIn"

\* A reading of the resolution that takes every answer for an acceptance.
is_answered(resolution) == resolution \in {"accepted", "rejected"}

\* Line 414: the resolution string is "accepted".
is_accepted(resolution) == resolution = "accepted"

\* An audit write whose failure ends the request with an error.
AuditOrFail(t, kind) ==
    {[t EXCEPT !.audited = @ \cup {kind}],
     [t EXCEPT !.audit_failed = TRUE, !.pc = "idle", !.result = "StorageError"]}

\* An audit record is written; whether the write succeeds is not looked at.
Audit(t, kind) ==
    {[t EXCEPT !.audited = @ \cup {kind}, !.audit_failed = @ \/ ~audit_ok] :
        audit_ok \in BOOLEAN}

(***************************************************************************)
(* check_in_waypoint, lines 62-165: read the participant and the waypoint, *)
(* the two checks, the location validation, the audit records.             *)
(***************************************************************************)
check_in_waypoint(r, w, location) ==
    /\ req[r].pc = "idle"
    /\ now + PendingWrites + 1 <= MaxClock
    /\ LET p == SlotParticipant[r]
           participant == challenge_participants[p]
       IN  IF WaypointsById(w) = {} THEN Refuse(r, "checkin", w, "WaypointNotFound")
           ELSE \E waypoint \in WaypointsById(w) :
               IF ~belongs_to_challenge(p, waypoint)
               THEN Refuse(r, "checkin", w, "WrongChallenge")
               ELSE IF ~is_current_waypoint(participant, w)
               THEN Refuse(r, "checkin", w, "NotCurrentWaypoint")
               ELSE IF ~location.coordinates_ok
               THEN /\ req' = [req EXCEPT ![r] =
                        [IdleReq EXCEPT !.kind = "checkin", !.waypoint_id = w,
                            !.validated = TRUE, !.location = location,
                            !.participant = participant,
                            !.result = "LocationValidationFailed"]]
                    /\ UNCHANGED <<now, challenge_participants>>
               ELSE LET inside == is_valid(location.distance, waypoint.radius_meters)
                        t == [IdleReq EXCEPT !.kind = "checkin", !.waypoint_id = w,
                                 !.validated = TRUE, !.location = location,
                                 !.participant = participant,
                                 !.pc = IF inside THEN "checkin_update" ELSE "idle",
                                 !.result = IF inside THEN "none" ELSE "TooFar"]
                    IN  /\ \E u \in Audit(t, "checked_in") : req' = [req EXCEPT ![r] = u]
                        /\ UNCHANGED <<now, challenge_participants>>
    /\ UNCHANGED outsideHunt

\* Lines 167-195: the row is set to (waypoint_id, CheckedIn); ok = FALSE is
\* an UPDATE that fails.
check_in_update(r, ok) ==
    /\ req[r].pc = "checkin_update"
    /\ IF ok
       THEN /\ challenge_participants' = update_waypoint_state(challenge_participants,
                    SlotParticipant[r], req[r].waypoint_id, "CheckedIn")
            /\ now' = now + 1
            /\ req' = [req EXCEPT ![r].pc = "idle", ![r].result = "CheckedIn"]
       ELSE /\ req' = [req EXCEPT ![r].pc = "idle", ![r].result = "StorageError"]
            /\ UNCHANGED <<now, challenge_participants>>
    /\ UNCHANGED outsideHunt

(***************************************************************************)
(* submit_waypoint_proof, lines 221-364: read the participant and the      *)
(* waypoint, the checks, the image of the multipart form, the audit record *)
(* of the submission.                                                      *)
(***************************************************************************)
submit_waypoint_proof(r, w, image_ok) ==
    /\ req[r].pc = "idle"
    /\ now + PendingWrites + 2 <= MaxClock
    /\ LET p == SlotParticipant[r]
           participant == challenge_participants[p]
       IN  IF WaypointsById(w) = {} THEN Refuse(r, "proof", w, "WaypointNotFound")
           ELSE \E waypoint \in WaypointsById(w) :
               IF ~belongs_to_challenge(p, waypoint)
               THEN Refuse(r, "proof", w, "WrongChallenge")
               ELSE IF ~is_checked_in(participant, w)
               THEN Refuse(r, "proof", w, "NotCheckedIn")
               ELSE IF ~image_ok
               THEN Refuse(r, "proof", w, "InvalidImage")
               ELSE LET t == [IdleReq EXCEPT !.kind = "proof", !.waypoint_id = w,
                                 !.pc = "validate_image", !.participant = participant]
                    IN  /\ \E u \in Audit(t, "proof_submitted") :
                               req' = [req EXCEPT ![r] = u]
                        /\ UNCHANGED <<now, challenge_participants>>
    /\ UNCHANGED outsideHunt

\* Lines 366-411 and 469-510: ImageService::validate_image and what the
\* handler makes of its answer.  InvalidImagePath is found before anything
\* is sent; every other outcome follows a request to the service.  An answer
\* of the service that is not taken for an acceptance is a rejection (the
\* else of line 469); an error of the service ends the request with 500.
ImageOutcomes == {"InvalidImagePath", "ServiceError", "accepted", "rejected"}

validate_image(r, outcome) ==
    /\ req[r].pc = "validate_image"
    /\ LET sent == outcome # "InvalidImagePath"
           t == [req[r] EXCEPT !.pc = "idle", !.sent = sent, !.resolution = outcome,
                    !.result = IF outcome \in {"accepted", "rejected"}
                               THEN "ProofRejected" ELSE "ImageServiceUnavailable"]
       IN  IF is_accepted(outcome)
           THEN req' = [req EXCEPT ![r].pc = "verified_update", ![r].sent = sent,
                           ![r].resolution = outcome]
           ELSE \E u \in Audit(t, "verified") : req' = [req EXCEPT ![r] = u]
    /\ UNCHANGED <<now, challenge_participants>>
    /\ UNCHANGED outsideHunt

\* Lines 414-421: the row is set to (waypoint_id, Verified); a failure of
\* the UPDATE is logged and the handler goes on.
verified_update(r, ok) ==
    /\ req[r].pc = "verified_update"
    /\ IF ok
       THEN /\ challenge_participants' = update_waypoint_state(challenge_participants,
                    SlotParticipant[r], req[r].waypoint_id, "Verified")
            /\ now' = now + 1
            /\ req' = [req EXCEPT ![r].pc = "advance",
                          ![r].participant = ChallengeParticipant(req[r].waypoint_id,
                                                 "Verified", now)]
       ELSE /\ req' = [req EXCEPT ![r].pc = "advance"]
            /\ UNCHANGED <<now, challenge_participants>>
    /\ UNCHANGED outsideHunt

\* Lines 423-468, ChallengeParticipant::advance_to_next_waypoint: the next
\* waypoint of the request's own copy of the participant; when there is one
\* the row is set to (next, Presented).  Whatever the outcome, the audit
\* record is written and the handler answers VERIFIED.
advance_to_next_waypoint(r, ok) ==
    /\ req[r].pc = "advance"
    /\ LET self == req[r].participant
           finish(advanced) ==
               \E u \in Audit([req[r] EXCEPT !.pc = "idle", !.advanced = advanced,
                                  !.result = "Verified"], "verified") :
                   req' = [req EXCEPT ![r] = u]
       IN  IF self.current_waypoint_id = NULL
           THEN finish("None") /\ UNCHANGED <<now, challenge_participants>>
           ELSE \E current_waypoint \in WaypointsById(self.current_waypoint_id) :
               IF get_next_waypoint(current_waypoint) = {}
               THEN finish("None") /\ UNCHANGED <<now, challenge_participants>>
               ELSE \E next \in get_next_waypoint(current_waypoint) :
                   IF ok
                   THEN /\ challenge_participants' =
                               update_waypoint_state(challenge_participants,
                                   SlotParticipant[r], next.waypoint_id, "Presented")
                        /\ now' = now + 1
                        /\ finish("Some")
                   ELSE finish("Err") /\ UNCHANGED <<now, challenge_participants>>
    /\ UNCHANGED outsideHunt

HuntNext ==
    \/ \E r \in Slots, w \in WaypointIds, location \in Locations :
           check_in_waypoint(r, w, location)
    \/ \E r \in Slots, ok \in BOOLEAN : check_in_update(r, ok)
    \/ \E r \in Slots, w \in WaypointIds, image_ok \in BOOLEAN :
           submit_waypoint_proof(r, w, image_ok)
    \/ \E r \in Slots, outcome \in ImageOutcomes : validate_image(r, outcome)
    \/ \E r \in Slots, ok \in BOOLEAN : verified_update(r, ok)
    \/ \E r \in Slots, ok \in BOOLEAN : advance_to_next_waypoint(r, ok)

(***************************************************************************)
(* ImageService::validate_image (services/image_service.rs): one call,     *)
(* request by request.  Every request to the image-checker service ends,   *)
(* with an answer or with an error (the client has a timeout).             *)
(***************************************************************************)
max_attempts == 30
base_delay == 1000

\* What the service answers to GET /status/{id}: a status string, or an
\* error (a status code that is no success; a transport or decoding error).
StatusResponses ==
    {"completed", "failed", "in_progress", "accepted", "unknown",
     "ServiceUnavailable", "RequestFailed"}

\* What it answers to POST /validate and to GET /results/{id}.
SubmitResponses == {"success", "ServiceUnavailable", "RequestFailed"}
ResultsResponses == {"accepted", "rejected", "ServiceUnavailable", "RequestFailed"}

\* A relative image path, by what build_image_path looks at.
ImagePaths == [dotdot : BOOLEAN, absolute : BOOLEAN]

MaxJobs == 2            \* calls of validate_image, one after the other

\* The values Uuid::new_v4() is drawn from.
Uuids == 1..MaxJobs

\* Every call draws the same value.
new_v4_again(used) == {1}

\* Uuid::new_v4(): a value that no earlier call has drawn.
new_v4(used) == Uuids \ used

\* `earlier` holds the processing ids of the calls before this one and
\* `previous` what the caller made of the last of them, `request_ids` the ids that the
\* requests of this call carried, and `total_wait` the milliseconds slept so
\* far.
NoJob ==
    [pc |-> "idle", attempts |-> 0, status_requests |-> 0, waits |-> 0,
     results_requests |-> 0, submitted |-> FALSE, last_status |-> "none",
     delay |-> 0, result |-> "none",
     image_path |-> [dotdot |-> FALSE, absolute |-> FALSE], processing_id |-> 0,
     earlier |-> {}, previous |-> "none", request_ids |-> {}, total_wait |-> 0]

ImageInit == job = NoJob

\* The job ends with `result`.
JobEnds(t, result) == [t EXCEPT !.pc = "done", !.result = result]

\* A path check that looks for ".." only.
build_image_path_dotdot_only(relative_path) ==
    IF relative_path.dotdot THEN "InvalidImagePath" ELSE "Ok"

\* build_image_path: the path is refused when it contains ".." or starts
\* with '/'.
build_image_path(relative_path) ==
    IF relative_path.dotdot \/ relative_path.absolute THEN "InvalidImagePath" ELSE "Ok"

\* Lines 97-100: the call begins; a refused path ends it before any request.
image_service_validate_image(image_path, processing_id) ==
    /\ job.pc = "idle"
    /\ processing_id \in new_v4(job.earlier)
    /\ LET t == [job EXCEPT !.image_path = image_path, !.processing_id = processing_id]
       IN  job' = IF build_image_path(image_path) = "Ok"
                  THEN [t EXCEPT !.pc = "submit_validation"]
                  ELSE JobEnds(t, "InvalidImagePath")
    /\ UNCHANGED outsideImage

\* Lines 380-381 and 414: Ok(result) gives the resolution; InvalidImagePath
\* is the error found before any request; every other Err is an error of
\* the conversation with the service.  The first definition is a handler
\* that takes such an error for an acceptance.
validation_outcome_lenient(result) ==
    IF result \in {"accepted", "rejected", "InvalidImagePath"} THEN result
    ELSE "accepted"

validation_outcome(result) ==
    IF result \in {"accepted", "rejected", "InvalidImagePath"} THEN result
    ELSE "ServiceError"

\* The call has returned and its record is given up: the caller's next call
\* of validate_image can follow, up to MaxJobs calls in all.
image_service_next_call ==
    /\ job.pc = "done"
    /\ job' = [NoJob EXCEPT !.earlier = job.earlier \cup {job.processing_id},
                            !.previous = validation_outcome(job.result),
                            !.pc = IF Cardinality(job.earlier) + 1 < MaxJobs
                                   THEN "idle" ELSE "spent"]
    /\ UNCHANGED outsideImage

\* submit_validation: POST /validate.
submit_validation(response) ==
    /\ job.pc = "submit_validation"
    /\ LET t == [job EXCEPT !.submitted = TRUE, !.request_ids = @ \cup {job.processing_id}]
       IN  job' = IF response = "success" THEN [t EXCEPT !.pc = "check_status"]
                  ELSE JobEnds(t, response)
    /\ UNCHANGED outsideImage

\* A loop that gives up one poll later.
timed_out_late(attempts) == attempts > max_attempts

\* Line 156: attempts >= max_attempts.
timed_out(attempts) == attempts >= max_attempts

\* A match that takes "failed" for a job still in progress.
status_kind_lenient(status) ==
    CASE status = "completed" -> "completed"
      [] status \in {"failed", "in_progress", "accepted"} -> "pending"
      [] OTHER -> "unknown"

\* Lines 151-169: the arms of the match on the status string.
status_kind(status) ==
    CASE status = "completed" -> "completed"
      [] status = "failed" -> "failed"
      [] status \in {"in_progress", "accepted"} -> "pending"
      [] OTHER -> "unknown"

\* A wait that grows with the square of the attempts.
backoff_delay_squared(attempts) == base_delay + (attempts * attempts * 100)

\* Line 161: the wait after the attempts-th pending answer.
backoff_delay(attempts) == base_delay + (attempts * 100)

\* poll_for_completion, one turn of the loop: check_status, then the match.
poll_for_completion(response) ==
    /\ job.pc = "check_status"
    /\ LET t == [job EXCEPT !.status_requests = @ + 1, !.last_status = response,
                            !.request_ids = @ \cup {job.processing_id}]
           kind == status_kind(response)
       IN  job' = IF response \in {"ServiceUnavailable", "RequestFailed"}
                  THEN JobEnds(t, response)
                  ELSE IF kind = "completed" THEN [t EXCEPT !.pc = "get_results"]
                  ELSE IF kind = "failed" THEN JobEnds(t, "ValidationFailed")
                  ELSE IF kind = "pending"
                  THEN IF timed_out(job.attempts + 1)
                       THEN JobEnds([t EXCEPT !.attempts = @ + 1], "Timeout")
                       ELSE [t EXCEPT !.attempts = @ + 1, !.pc = "sleep",
                                      !.delay = backoff_delay(job.attempts + 1)]
                  ELSE JobEnds(t, "UnexpectedResponse")
    /\ UNCHANGED outsideImage

\* Line 162: sleep(delay), then the next turn.
poll_sleep ==
    /\ job.pc = "sleep"
    /\ job' = [job EXCEPT !.pc = "check_status", !.waits = @ + 1,
                          !.total_wait = @ + job.delay]
    /\ UNCHANGED outsideImage

\* get_results: GET /results/{id}; the resolution is returned as it comes.
get_results(response) ==
    /\ job.pc = "get_results"
    /\ job' = JobEnds([job EXCEPT !.results_requests = @ + 1,
                                  !.request_ids = @ \cup {job.processing_id}], response)
    /\ UNCHANGED outsideImage

ImageNext ==
    \/ \E image_path \in ImagePaths, processing_id \in Uuids :
           image_service_validate_image(image_path, processing_id)
    \/ \E response \in SubmitResponses : submit_validation(response)
    \/ \E response \in StatusResponses : poll_for_completion(response)
    \/ poll_sleep
    \/ \E response \in ResultsResponses : get_results(response)

(***************************************************************************)
(* validate_waypoint_sequences applied to a waypoint list of a create      *)
(* request (the sequence numbers of its waypoints, in the request's order).*)
(***************************************************************************)
MaxWaypoints == 3       \* waypoints in a request
MaxSequence == 3        \* sequence numbers run from 0 to MaxSequence

WaypointLists == UNION {[1..n -> 0..MaxSequence] : n \in 0..MaxWaypoints}

NoCandidate == [waypoints |-> <<>>, verdict |-> "none"]

InputInit == candidate \in {[NoCandidate EXCEPT !.waypoints = w] : w \in WaypointLists}

\* Line 658 of create_new: the list is validated.
validate_request ==
    /\ candidate.verdict = "none"
    /\ candidate' = [candidate EXCEPT !.verdict = validate_waypoint_sequences(candidate.waypoints)]
    /\ UNCHANGED <<trip, fix, legacy>>
    /\ UNCHANGED outsideInput

(***************************************************************************)
(* The payload of a create request on its way to the table and back:       *)
(* create_new builds ChallengeData from the request and converts it with   *)
(* serde_json::to_value; the JSONB column stores the value;                *)
(* get_current_by_id returns it, and get_challenge_data decodes it with    *)
(* serde_json::from_value.                                                 *)
(*                                                                         *)
(* JSON values: null, numbers, strings, arrays (sequences) and objects     *)
(* (records).  An f64 is a number in JSON only when it is finite.          *)
(***************************************************************************)
MaxTripWaypoints == 2   \* waypoints in a request that is stored and read

JsonNull == [json |-> "null", v |-> "null"]
JsonNumber(n) == [json |-> "number", v |-> n]
JsonString(str) == [json |-> "string", v |-> str]

\* f64 values: two finite ones and the non-finite ones.
Finite == {"50.0", "51.5074"}
NonFinite == {"NaN", "inf"}

\* Option<i32> values of the time budget.
TimeBudgets == {NULL, 15}

\* serde_json's Value::from(f64): Null when the number is not finite.
f64_to_value(f) == IF f \in NonFinite THEN JsonNull ELSE JsonNumber(f)

\* Option<i32> to JSON and back.
option_to_value(o) == IF o = NULL THEN JsonNull ELSE JsonNumber(o)
option_from_value(value) == IF value.json = "null" THEN NULL ELSE value.v

\* f64 from JSON: null is no f64.
f64_from_value(value) == IF value.json = "number" THEN value.v ELSE "Err"

\* CreateWaypointRequest
CreateWaypointRequest(sequence, lat, radius, hints, time) ==
    [waypoint_sequence |-> sequence, location |-> [lat |-> lat, long |-> "51.5074"],
     radius_meters |-> radius, waypoint_clue |-> "clue", hints |-> hints,
     waypoint_time_minutes |-> time, image_subject |-> "subject"]

\* The waypoints a request may carry at a given sequence number.
WaypointRequests(sequence) ==
    {CreateWaypointRequest(sequence, lat, radius, hints, time) :
        lat \in {"51.5074", "NaN"}, radius \in {"50.0", "inf"},
        hints \in {<<>>, <<"h2", "h1">>}, time \in TimeBudgets}

\* The valid waypoint lists: the sequence numbers are 1..n in some order.
ValidWaypointLists ==
    UNION {{w \in [1..n -> UNION {WaypointRequests(k) : k \in 1..n}] :
              validate_waypoint_sequences([i \in 1..n |-> w[i].waypoint_sequence]) = "Ok"} :
           n \in 1..MaxTripWaypoints}

\* CreateChallengeRequest
CreateChallengeRequests ==
    [duration_minutes : {120}, challenge_type : {"REC", "COM"},
     waypoints : ValidWaypointLists]

\* Lines 669-683 and to_value: WaypointData of a request's waypoint, as JSON.
WaypointData(wp, created_at) ==
    [waypoint_id |-> JsonNull,
     waypoint_sequence |-> JsonNumber(wp.waypoint_sequence),
     location |-> [lat |-> f64_to_value(wp.location.lat),
                   long |-> f64_to_value(wp.location.long)],
     radius_meters |-> f64_to_value(wp.radius_meters),
     waypoint_clue |-> JsonString(wp.waypoint_clue),
     hints |-> [i \in 1..Len(wp.hints) |-> JsonString(wp.hints[i])],
     waypoint_time_minutes |-> option_to_value(wp.waypoint_time_minutes),
     image_subject |-> JsonString(wp.image_subject),
     created_at |-> JsonNumber(created_at)]

\* Lines 686-704: ChallengeData of the request, as JSON.
to_value(request, challenge_id, moderator_id, created_at) ==
    [challenge_id |-> JsonNumber(challenge_id),
     challenge_moderator |-> JsonNumber(moderator_id),
     actual_start_time |-> JsonNull,
     duration_minutes |-> JsonNumber(request.duration_minutes),
     challenge_type |-> JsonString(request.challenge_type),
     active |-> TRUE,
     waypoints |-> [i \in 1..Len(request.waypoints) |->
                       WaypointData(request.waypoints[i], created_at)]]

\* serde_json::from_value::<ChallengeData>: an error when a field of type
\* f64 is null, the decoded fields otherwise.
from_value(challenge) ==
    LET waypoint(wd) ==
            [waypoint_sequence |-> wd.waypoint_sequence.v,
             location |-> [lat |-> f64_from_value(wd.location.lat),
                           long |-> f64_from_value(wd.location.long)],
             radius_meters |-> f64_from_value(wd.radius_meters),
             waypoint_clue |-> wd.waypoint_clue.v,
             hints |-> [i \in 1..Len(wd.hints) |-> wd.hints[i].v],
             waypoint_time_minutes |-> option_from_value(wd.waypoint_time_minutes),
             image_subject |-> wd.image_subject.v]
        decoded == [i \in 1..Len(challenge.waypoints) |-> waypoint(challenge.waypoints[i])]
    IN  IF \E i \in 1..Len(decoded) :
               "Err" \in {decoded[i].location.lat, decoded[i].location.long,
                          decoded[i].radius_meters}
        THEN "ValidationFailed"
        ELSE [duration_minutes |-> challenge.duration_minutes.v,
              challenge_type |-> challenge.challenge_type.v,
              waypoints |-> decoded]

NoTrip == [pc |-> "idle", request |-> "none", challenge |-> "none", payload |-> "none",
           data |-> "none"]

TripInit == trip \in {[NoTrip EXCEPT !.pc = "request", !.request = r] :
                         r \in CreateChallengeRequests}

\* create_new on the request: the payload is built, converted and inserted.
create_new_payload(moderator_id) ==
    /\ trip.pc = "request"
    /\ trip' = [trip EXCEPT !.pc = "stored",
                            !.challenge = to_value(trip.request, 1, moderator_id, now)]
    /\ UNCHANGED <<candidate, fix, legacy>>
    /\ UNCHANGED outsideInput

\* get_current_by_id on the id create_new returned, and get_challenge_data
\* on the row it returns.
get_current_payload ==
    /\ trip.pc = "stored"
    /\ trip' = [trip EXCEPT !.pc = "read", !.payload = trip.challenge,
                            !.data = from_value(trip.challenge)]
    /\ UNCHANGED <<candidate, fix, legacy>>
    /\ UNCHANGED outsideInput

(***************************************************************************)
(* LocationService: the distance between two points and the decision of    *)
(* validate_waypoint_location.  Coordinates are f64 degrees, taken here     *)
(* from the points where the trigonometry is exact (multiples of a quarter  *)
(* turn), the first values outside the ranges, and NaN.  Squared sines are  *)
(* counted in halves and angles in quarter turns.                           *)
(***************************************************************************)
Latitudes == {-91, -90, 0, 90, 91, NaN}
Longitudes == {-181, -180, 0, 180, 181, NaN}
GeoLocation(lat, lon) == [lat |-> lat, lon |-> lon]
GeoLocations == {GeoLocation(lat, lon) : lat \in Latitudes, lon \in Longitudes}

\* LocationService::validate_coordinates.
validate_coordinates(location) ==
    IF f64_lt(location.lat, -90) \/ f64_gt(location.lat, 90) THEN "InvalidCoordinates"
    ELSE IF f64_lt(location.lon, -180) \/ f64_gt(location.lon, 180) THEN "InvalidCoordinates"
    ELSE "Ok"

\* f64 subtraction of degrees.
f64_sub(a, b) == IF a = NaN \/ b = NaN THEN NaN ELSE a - b

\* (delta / 2.0).sin().powi(2) of a difference in degrees, in halves.
sin_half_squared(delta) ==
    CASE delta = NaN -> NaN
      [] delta \in {0, 360, -360} -> 0
      [] delta \in {90, -90, 270, -270} -> 1
      [] delta \in {180, -180} -> 2

\* lat.to_radians().cos() of a latitude in degrees.
cos(lat) ==
    CASE lat = NaN -> NaN
      [] lat \in {90, -90} -> 0
      [] lat = 0 -> 1

\* The haversine term a of calculate_distance, in halves; one whose second
\* product uses the target's cosine twice.
haversine_a_target_only(target, current) ==
    LET delta_lat == f64_sub(current.lat, target.lat)
        delta_lon == f64_sub(current.lon, target.lon)
    IN  IF NaN \in {delta_lat, delta_lon} THEN NaN
        ELSE sin_half_squared(delta_lat)
                 + cos(target.lat) * cos(target.lat) * sin_half_squared(delta_lon)

haversine_a(target, current) ==
    LET delta_lat == f64_sub(current.lat, target.lat)
        delta_lon == f64_sub(current.lon, target.lon)
    IN  IF NaN \in {delta_lat, delta_lon} THEN NaN
        ELSE sin_half_squared(delta_lat)
                 + cos(target.lat) * cos(current.lat) * sin_half_squared(delta_lon)

\* 2.0 * a.sqrt().atan2((1.0 - a).sqrt()), in quarter turns: the square root of
\* a negative number is NaN.
central_angle(a) == IF a = NaN \/ a > 2 THEN NaN ELSE a

\* EARTH_RADIUS (6371000.0 m) times a quarter turn in radians, in whole metres.
QuarterMeridian == 10007543

\* EARTH_RADIUS * c.
Meters(c) == IF c = NaN THEN NaN ELSE c * QuarterMeridian

DistanceError == [error |-> "InvalidCoordinates", distance |-> 0]
Distance(d) == [error |-> "None", distance |-> d]

\* LocationService::calculate_distance.
calculate_distance(target, current) ==
    IF validate_coordinates(target) # "Ok" THEN DistanceError
    ELSE IF validate_coordinates(current) # "Ok" THEN DistanceError
    ELSE Distance(Meters(central_angle(haversine_a(target, current))))

\* LocationService::is_within_bounding_box: degree_tolerance is
\* radius_meters / 111320.0, compared here after multiplying out.
MetersPerDegree == 111320
Abs(x) == IF x < 0 THEN -x ELSE x
is_within_bounding_box(target, current, radius_meters) ==
    LET lat_diff == f64_sub(current.lat, target.lat)
        lon_diff == f64_sub(current.lon, target.lon)
    IN  /\ radius_meters # NaN /\ lat_diff # NaN /\ lon_diff # NaN
        /\ Abs(lat_diff) * MetersPerDegree <= radius_meters
        /\ Abs(lon_diff) * MetersPerDegree <= radius_meters

\* A decision that first asks the bounding box.
within_box_and_radius(target, current, radius_meters) ==
    /\ is_within_bounding_box(target, current, radius_meters)
    /\ is_valid(calculate_distance(target, current).distance, radius_meters)

\* The decision of validate_waypoint_location once the distance is known.
within_radius(target, current, radius_meters) ==
    is_valid(calculate_distance(target, current).distance, radius_meters)

RadiusValues == {0, 50, Meters(1)}

NoFix == [pc |-> "idle", target |-> GeoLocation(0, 0), current |-> GeoLocation(0, 0),
          radius_meters |-> 0, result |-> "None", is_valid |-> FALSE, distance |-> 0]

FixInit == fix \in {[NoFix EXCEPT !.pc = "called", !.target = t, !.current = u,
                                  !.radius_meters = r] :
                        t \in GeoLocations, u \in GeoLocations, r \in RadiusValues}

\* LocationService::validate_waypoint_location, the waypoint found.
validate_waypoint_location ==
    /\ fix.pc = "called"
    /\ LET measured == calculate_distance(fix.target, fix.current)
       IN  fix' = IF measured.error # "None"
                  THEN [fix EXCEPT !.pc = "done", !.result = measured.error]
                  ELSE [fix EXCEPT !.pc = "done", !.result = "Ok",
                                   !.distance = measured.distance,
                                   !.is_valid = within_radius(fix.target, fix.current,
                                                              fix.radius_meters)]
    /\ UNCHANGED <<candidate, trip, legacy>>
    /\ UNCHANGED outsideInput

(***************************************************************************)
(* The challenges table (models/challenge.rs, impl Challenge) and the      *)
(* handlers of handlers/challenges.rs that work on it: get_challenge,      *)
(* start_challenge, invite_participant; and create_challenge, which stores *)
(* the challenge with TemporalChallenge::create_new.  One row of table     *)
(* challenges, made by Challenge::create for the waypoints of "A", and its *)
(* rows of challenge_participants.                                         *)
(***************************************************************************)
\* A row of table challenges: Challenge.
Challenge(challenge_id, moderator, started, duration, active) ==
    [challenge_id |-> challenge_id, challenge_moderator |-> moderator,
     actual_start_time |-> started, duration_minutes |-> duration, active |-> active]

\* Challenge::is_ended, lines 505-513, at the time `time`; the clock counts
\* minutes.
is_ended(self, time) ==
    IF self.actual_start_time # NULL
    THEN time > self.actual_start_time + self.duration_minutes
    ELSE FALSE

\* A request on the table between its steps; `self` is the Challenge it
\* read, `challenge_id` the id it named or, for create_challenge, returned.
NoLegacyCall ==
    [pc |-> "idle", kind |-> "none", self |-> Challenge(NULL, NULL, NULL, NULL, FALSE),
     challenge_id |-> NULL, moderator_id |-> NULL, user_id |-> NULL,
     version |-> NULL, result |-> "none"]

NoLegacy ==
    [challenge |-> Challenge(1, 1, NULL, Duration, TRUE), participants |-> {},
     participant_id_seq |-> 0, returned |-> {},
     call |-> [c \in Callers |-> NoLegacyCall]]

LegacyInit == legacy \in {[NoLegacy EXCEPT !.challenge.active = a] : a \in BOOLEAN}

\* Challenge::get_by_id: the row of table challenges with that id.
challenge_get_by_id(challenge_id) ==
    IF legacy.challenge.challenge_id = challenge_id THEN {legacy.challenge} ELSE {}

\* The request of caller c ends with `result`.
LegacyDone(c, t, result) ==
    [legacy EXCEPT !.call[c] = [NoLegacyCall EXCEPT !.kind = t.kind,
                                    !.challenge_id = t.challenge_id,
                                    !.version = t.version, !.result = result]]

\* Handler create_challenge, lines 60-147, after TemporalChallenge::create_new
\* has returned Ok: the response carries to_legacy_challenge's challenge_id,
\* a Uuid::new_v4(); table challenges is not written.
create_challenge(c, challenge_id) ==
    /\ legacy.call[c].pc = "idle"
    /\ call[c].pc = "idle" /\ call[c].result = "Ok" /\ call[c].version # NULL
    /\ legacy.call[c].version # call[c].version
    /\ challenge_id \in new_v4({legacy.challenge.challenge_id} \cup legacy.returned)
    /\ legacy' = [LegacyDone(c, [NoLegacyCall EXCEPT !.kind = "create",
                                     !.challenge_id = challenge_id,
                                     !.version = call[c].version], "Created")
                      EXCEPT !.returned = @ \cup {challenge_id}]
    /\ UNCHANGED <<now, storeVars, huntVars, imageVars, candidate, trip, fix>>

\* Handler get_challenge, lines 183-233.
get_challenge(c, challenge_id) ==
    /\ legacy.call[c].pc = "idle"
    /\ LET t == [NoLegacyCall EXCEPT !.kind = "get", !.challenge_id = challenge_id]
       IN  legacy' = IF challenge_get_by_id(challenge_id) = {}
                     THEN LegacyDone(c, t, "ChallengeNotFound")
                     ELSE LegacyDone(c, t, "Ok")
    /\ UNCHANGED <<now, storeVars, huntVars, imageVars, candidate, trip, fix>>

\* Handlers start_challenge (lines 278-298) and invite_participant (411-440):
\* the challenge is read; invite_participant also asks for the moderator.
handler_get_challenge(c, kind, challenge_id, moderator_id, user_id) ==
    /\ legacy.call[c].pc = "idle"
    /\ LET t == [NoLegacyCall EXCEPT !.kind = kind, !.challenge_id = challenge_id,
                                    !.moderator_id = moderator_id, !.user_id = user_id]
       IN  legacy' =
               IF challenge_get_by_id(challenge_id) = {}
               THEN LegacyDone(c, t, "ChallengeNotFound")
               ELSE LET self == CHOOSE row \in challenge_get_by_id(challenge_id) : TRUE
                    IN  IF kind = "invite" /\ self.challenge_moderator # moderator_id
                        THEN LegacyDone(c, t, "Forbidden")
                        ELSE [legacy EXCEPT !.call[c] = [t EXCEPT !.pc = kind, !.self = self]]
    /\ UNCHANGED <<now, storeVars, huntVars, imageVars, candidate, trip, fix>>

\* Lines 316-322: UPDATE challenges SET actual_start_time = $1 WHERE
\* challenge_id = $2.
update_actual_start_time(row, time) == [row EXCEPT !.actual_start_time = time]

\* Challenge::start_challenge, lines 292-371: the three checks on self, then
\* one transaction: the UPDATE of the challenge, and every participant of
\* the challenge set to (first waypoint, PRESENTED).  ok = FALSE is a
\* transaction that fails and is dropped.
challenge_start_challenge(c, ok) ==
    /\ legacy.call[c].pc = "start"
    /\ LET t == legacy.call[c]
           self == t.self
       IN  IF self.challenge_moderator # t.moderator_id
           THEN legacy' = LegacyDone(c, t, "NotModerator") /\ UNCHANGED now
           ELSE IF ~self.active
           THEN legacy' = LegacyDone(c, t, "ChallengeNotActive") /\ UNCHANGED now
           ELSE IF self.actual_start_time # NULL
           THEN legacy' = LegacyDone(c, t, "ChallengeAlreadyStarted") /\ UNCHANGED now
           ELSE IF ~ok
           THEN legacy' = LegacyDone(c, t, "DatabaseError") /\ UNCHANGED now
           ELSE /\ now < MaxClock
                /\ now' = now + 1
                /\ legacy' =
                       [LegacyDone(c, t, "Started") EXCEPT
                           !.challenge = update_actual_start_time(@, now),
                           !.participants =
                               IF get_first_waypoint("A") = {} THEN @
                               ELSE LET first == CHOOSE w \in get_first_waypoint("A") : TRUE
                                    IN  {[p EXCEPT !.current_waypoint_id = first.waypoint_id,
                                                   !.current_state = "Presented",
                                                   !.last_updated = now] : p \in @}]
    /\ UNCHANGED <<storeVars, huntVars, imageVars, candidate, trip, fix>>

\* Lines 449-455: SELECT participant_id FROM challenge_participants WHERE
\* challenge_id = $1 AND user_id = $2.
select_existing(rows, user_id) == {p \in rows : p.user_id = user_id}

\* Challenge::invite_participant, lines 448-460: the SELECT and its test.
invite_participant_select(c) ==
    /\ legacy.call[c].pc = "invite"
    /\ legacy' = IF select_existing(legacy.participants, legacy.call[c].user_id) # {}
                 THEN LegacyDone(c, legacy.call[c], "AlreadyParticipant")
                 ELSE [legacy EXCEPT !.call[c].pc = "insert"]
    /\ UNCHANGED <<now, storeVars, huntVars, imageVars, candidate, trip, fix>>

\* Lines 462-479: the INSERT names challenge_id, user_id and the nickname;
\* current_waypoint_id is left to the column (no value) and current_state
\* reads as PRESENTED.  ok = FALSE is an INSERT that fails.
invite_participant_insert(c, ok) ==
    /\ legacy.call[c].pc = "insert"
    /\ legacy.participant_id_seq < MaxParticipants
    /\ legacy' =
           IF ok
           THEN [LegacyDone(c, legacy.call[c], "Invited") EXCEPT
                    !.participant_id_seq = @ + 1,
                    !.participants = @ \cup
                        {[participant_id |-> legacy.participant_id_seq + 1,
                          user_id |-> legacy.call[c].user_id,
                          current_waypoint_id |-> NULL, current_state |-> "Presented",
                          last_updated |-> NULL]}]
           ELSE LegacyDone(c, legacy.call[c], "DatabaseError")
    /\ UNCHANGED <<now, storeVars, huntVars, imageVars, candidate, trip, fix>>

\* The ids a request may name: the one of the row, and those returned.
LegacyIds == {legacy.challenge.challenge_id} \cup legacy.returned

LegacyNext ==
    \/ \E c \in Callers, challenge_id \in LegacyIds : get_challenge(c, challenge_id)
    \/ \E c \in Callers, kind \in {"start", "invite"}, challenge_id \in LegacyIds,
          moderator_id \in Users, user_id \in Users :
           handler_get_challenge(c, kind, challenge_id, moderator_id, user_id)
    \/ \E c \in Callers, ok \in BOOLEAN : challenge_start_challenge(c, ok)
    \/ \E c \in Callers : invite_participant_select(c)
    \/ \E c \in Callers, ok \in BOOLEAN : invite_participant_insert(c, ok)

\* A challenge is created and then asked for, by one caller.
CreatedNext ==
    \/ \E m \in Creators, request \in {<<1, 2>>} : create_new("c1", m, request)
    \/ \E outcome \in CreateOutcomes : insert_first_version("c1", outcome)
    \/ \E challenge_id \in Uuids : create_challenge("c1", challenge_id)
    \/ \E challenge_id \in LegacyIds : get_challenge("c1", challenge_id)
    \/ \E kind \in {"start", "invite"}, challenge_id \in LegacyIds,
          moderator_id \in Users, user_id \in Users :
           handler_get_challenge("c1", kind, challenge_id, moderator_id, user_id)
    \/ \E ok \in BOOLEAN : challenge_start_challenge("c1", ok)
    \/ invite_participant_select("c1")
    \/ \E ok \in BOOLEAN : invite_participant_insert("c1", ok)

(***************************************************************************)
(* The specifications: the store with no hunt going on; the hunt of a      *)
(* started challenge with the store at rest; one call of the image         *)
(* service, which also runs to its end; the validation of a waypoint list. *)
(***************************************************************************)
Init ==
    now = 1 /\ StoreInit /\ HuntInit /\ ImageInit /\ candidate = NoCandidate /\ trip = NoTrip /\ fix = NoFix /\ legacy = NoLegacy

SpecStore == Init /\ [][StoreNext]_vars

SpecHunt == Init /\ [][HuntNext]_vars

SpecImage == Init /\ [][ImageNext]_vars /\ WF_vars(ImageNext)

ImageRunsNext == ImageNext \/ image_service_next_call

(***************************************************************************)
(* The requests of one participant, one at a time, each proof submission   *)
(* with its call of ImageService::validate_image run request by request:   *)
(* the handler awaits the call (lines 368-378) and matches on what it      *)
(* returned (380-409).                                                     *)
(***************************************************************************)
\* The handler has taken what the call returned, and the call's record is
\* given up before the handler goes on.
ResultTaken == job.pc # "done"

ProofNext ==
    \/ \E w \in WaypointIds, location \in Locations :
           ResultTaken /\ check_in_waypoint("r1", w, location)
    \/ \E ok \in BOOLEAN : ResultTaken /\ check_in_update("r1", ok)
    \/ \E w \in WaypointIds, image_ok \in BOOLEAN :
           job.pc = "idle" /\ submit_waypoint_proof("r1", w, image_ok)
    \/ req["r1"].pc = "validate_image" /\ ImageNext
    \/ /\ job.pc = "done"
       /\ validate_image("r1", validation_outcome(job.result))
    \/ req["r1"].pc # "validate_image" /\ image_service_next_call
    \/ \E ok \in BOOLEAN : ResultTaken /\ verified_update("r1", ok)
    \/ \E ok \in BOOLEAN : ResultTaken /\ advance_to_next_waypoint("r1", ok)

SpecProof == Init /\ [][ProofNext]_vars

SpecImageRuns == Init /\ [][ImageRunsNext]_vars

InitValidate == now = 1 /\ StoreInit /\ HuntInit /\ ImageInit /\ InputInit /\ trip = NoTrip /\ fix = NoFix /\ legacy = NoLegacy

ValidateNext == validate_request

SpecValidate == InitValidate /\ [][ValidateNext]_vars

InitRoundTrip ==
    now = 1 /\ StoreInit /\ HuntInit /\ ImageInit /\ candidate = NoCandidate /\ TripInit /\ fix = NoFix /\ legacy = NoLegacy

RoundTripNext ==
    \/ \E m \in Creators : create_new_payload(m)
    \/ get_current_payload

SpecRoundTrip == InitRoundTrip /\ [][RoundTripNext]_vars

InitLocation ==
    now = 1 /\ StoreInit /\ HuntInit /\ ImageInit /\ candidate = NoCandidate /\ trip = NoTrip
        /\ FixInit /\ legacy = NoLegacy

LocationNext == validate_waypoint_location

SpecLocation == InitLocation /\ [][LocationNext]_vars

InitLegacy ==
    now = 1 /\ StoreInit /\ HuntInit /\ ImageInit /\ candidate = NoCandidate /\ trip = NoTrip
        /\ fix = NoFix /\ LegacyInit

SpecLegacy == InitLegacy /\ [][LegacyNext]_vars

SpecCreated == InitLegacy /\ [][CreatedNext]_vars

\* The hunt of a participant whose challenge was started at time 1, active
\* or not, one request at a time, while the clock passes the end time.
InitTimeBox ==
    now = 1 /\ StoreInit /\ HuntInit /\ ImageInit /\ candidate = NoCandidate /\ trip = NoTrip
        /\ fix = NoFix
        /\ legacy \in {[NoLegacy EXCEPT !.challenge.actual_start_time = 1,
                                        !.challenge.active = a] : a \in BOOLEAN}

TimeBoxNext ==
    \/ \E w \in WaypointIds, location \in Locations : check_in_waypoint("r1", w, location)
    \/ \E ok \in BOOLEAN : check_in_update("r1", ok)
    \/ \E w \in WaypointIds, image_ok \in BOOLEAN : submit_waypoint_proof("r1", w, image_ok)
    \/ \E outcome \in ImageOutcomes : validate_image("r1", outcome)
    \/ \E ok \in BOOLEAN : verified_update("r1", ok)
    \/ \E ok \in BOOLEAN : advance_to_next_waypoint("r1", ok)

SpecTimeBox == InitTimeBox /\ [][TimeBoxNext]_vars

(***************************************************************************)
(* Claims about the temporal challenge store.                              *)
(***************************************************************************)

\* C1: every challenge_id that has a stored version has exactly one stored
\* version with end_at = NULL, whatever create_new_version and
\* start_challenge calls have run, committed, failed or are in progress.
C1_ExactlyOneCurrent ==
    \A id \in {r.challenge_id : r \in temporal_challenges} :
        Cardinality(CurrentRows(temporal_challenges, id)) = 1

\* A challenge with three versions, one of them written by start_challenge.
C1_Witness ==
    \E id \in 1..challenge_id_seq :
        /\ Cardinality(VersionsOf(temporal_challenges, id)) >= 3
        /\ \E r \in VersionsOf(temporal_challenges, id) :
               r.challenge.version_notes = "Challenge started"

\* C2: the current version of a challenge has a start_at strictly later
\* than every other version of it, and no two versions share a start_at.
C2_CurrentIsLatest ==
    \A id \in 1..challenge_id_seq :
        /\ \A cur \in CurrentRows(temporal_challenges, id) :
               \A r \in VersionsOf(temporal_challenges, id) \ {cur} :
                   r.start_at < cur.start_at
        /\ \A r1, r2 \in VersionsOf(temporal_challenges, id) :
               r1 # r2 => r1.start_at # r2.start_at

\* C3: of two create_new_version calls on one challenge whose transactions
\* were open at the same time, at most one commits a new current row; a call
\* that fails leaves no row behind; no challenge has two current rows.
C3_AtMostOneConcurrentCommit ==
    /\ \A p, q \in Callers :
           ~ /\ p # q
             /\ q \in call[p].overlapped
             /\ call[p].pc = "idle" /\ call[q].pc = "idle"
             /\ call[p].result = "Ok" /\ call[q].result = "Ok"
             /\ call[p].self.challenge_id = call[q].self.challenge_id
    /\ \A r \in temporal_challenges :
           \A c \in Callers :
               (call[c].pc = "idle" /\ call[c].result = "DatabaseError")
                   => r.challenge_version_id # call[c].version
    /\ \A id \in 1..challenge_id_seq :
           Cardinality(CurrentRows(temporal_challenges, id)) <= 1

(***************************************************************************)
(* Claims about the waypoint progression.  A step of request r is told by  *)
(* the slot's record: a request starts in a step that changes the record   *)
(* of an idle slot, and goes on in the steps that change it afterwards.    *)
(***************************************************************************)
Row(r) == challenge_participants[SlotParticipant[r]]
RowAfter(r) == challenge_participants'[SlotParticipant[r]]

Starts(r, kind) == req[r].pc = "idle" /\ req'[r] # req[r] /\ req'[r].kind = kind

WaypointOf(id) == CHOOSE w \in waypoints : w.waypoint_id = id

Own(r, waypoint) == waypoint.challenge_id = ParticipantChallenge[SlotParticipant[r]]

\* b is the waypoint that follows a in a's challenge.
Follows(a, b) ==
    /\ b.challenge_id = a.challenge_id
    /\ b.waypoint_sequence = a.waypoint_sequence + 1

\* a has the highest sequence number of its challenge.
IsLast(a) ==
    \A v \in waypoints : v.challenge_id = a.challenge_id
                            => v.waypoint_sequence <= a.waypoint_sequence

StateRank(state) ==
    CASE state = "Presented" -> 1 [] state = "CheckedIn" -> 2 [] state = "Verified" -> 3

\* The request ends in this step, refused with `result`, the row as it was.
Refused(r, result) ==
    /\ req'[r].pc = "idle"
    /\ req'[r].result = result
    /\ challenge_participants' = challenge_participants

\* C4: in every step, a participant's current_state does not move backwards
\* while current_waypoint_id stays the same, and it becomes Presented (again)
\* only in a step that moves current_waypoint_id to the waypoint with the
\* next sequence number of the challenge.
C4_StateMonotonic ==
    [][\A p \in Participants :
          LET a == challenge_participants[p]
              b == challenge_participants'[p]
          IN  /\ b.current_waypoint_id = a.current_waypoint_id
                    => StateRank(b.current_state) >= StateRank(a.current_state)
              /\ (b.current_waypoint_id # a.current_waypoint_id
                        /\ b.current_state = "Presented")
                    => Follows(WaypointOf(a.current_waypoint_id),
                               WaypointOf(b.current_waypoint_id))]_vars

\* C5 as stated: a proof submitted for a waypoint w while the row is not
\* (w, CheckedIn) is refused with the not-checked-in error, the row is
\* unchanged and nothing is sent to the external service.
C5_NotCheckedIn_AsStated ==
    [][\A r \in Slots, waypoint \in waypoints :
          (/\ Starts(r, "proof")
           /\ req'[r].waypoint_id = waypoint.waypoint_id
           /\ ~(/\ Row(r).current_waypoint_id = waypoint.waypoint_id
                /\ Row(r).current_state = "CheckedIn"))
          => Refused(r, "NotCheckedIn") /\ ~req'[r].sent]_vars

\* C5: a proof submitted for a waypoint w while the row is not
\* (w, CheckedIn) is refused, the row is unchanged and nothing is sent to the
\* external service; the error is not-checked-in when w is a waypoint of the
\* participant's challenge, and wrong-challenge when it is not.
C5_NotCheckedIn ==
    [][\A r \in Slots, waypoint \in waypoints :
          (/\ Starts(r, "proof")
           /\ req'[r].waypoint_id = waypoint.waypoint_id
           /\ ~(/\ Row(r).current_waypoint_id = waypoint.waypoint_id
                /\ Row(r).current_state = "CheckedIn"))
          => /\ Refused(r, IF Own(r, waypoint) THEN "NotCheckedIn" ELSE "WrongChallenge")
             /\ ~req'[r].sent]_vars

\* Two proofs refused as not checked in: one for the current waypoint before
\* any check-in, one for a waypoint that is not the current one.
C5_Witness ==
    \E r, q \in Slots :
        /\ req[r].kind = "proof" /\ req[r].result = "NotCheckedIn"
        /\ req[q].kind = "proof" /\ req[q].result = "NotCheckedIn"
        /\ req[r].waypoint_id = Row(r).current_waypoint_id
        /\ Row(r).current_state = "Presented"
        /\ req[q].waypoint_id # Row(q).current_waypoint_id

\* C6: a check-in for a waypoint of another challenge is refused with the
\* wrong-challenge error; a check-in for a waypoint of the participant's
\* challenge that is not its current waypoint is refused with the
\* not-current-waypoint error; in both cases the row is unchanged and the
\* location validator is not consulted.
C6_CheckInRefusals ==
    [][\A r \in Slots, waypoint \in waypoints :
          (Starts(r, "checkin") /\ req'[r].waypoint_id = waypoint.waypoint_id)
          => /\ ~Own(r, waypoint)
                   => Refused(r, "WrongChallenge") /\ ~req'[r].validated
             /\ (Own(r, waypoint) /\ Row(r).current_waypoint_id # waypoint.waypoint_id)
                   => Refused(r, "NotCurrentWaypoint") /\ ~req'[r].validated]_vars

\* One check-in refused for each of the two reasons.
C6_Witness ==
    \E r, q \in Slots :
        /\ req[r].kind = "checkin" /\ req[r].result = "WrongChallenge"
        /\ req[q].kind = "checkin" /\ req[q].result = "NotCurrentWaypoint"
        /\ Own(q, WaypointOf(req[q].waypoint_id))

\* The check-in of request r at the participant's current waypoint, from a
\* location with valid coordinates: outside the radius it ends too-far with
\* the row unchanged and the audit record written, inside it goes on to the
\* write of the row.
CheckInDecision(r) ==
    (/\ Starts(r, "checkin")
     /\ req'[r].waypoint_id = Row(r).current_waypoint_id
     /\ req'[r].location.coordinates_ok)
    => LET radius == WaypointOf(req'[r].waypoint_id).radius_meters
       IN  IF req'[r].location.distance > radius
           THEN Refused(r, "TooFar") /\ "checked_in" \in req'[r].audited
           ELSE /\ req'[r].pc = "checkin_update"
                /\ challenge_participants' = challenge_participants

\* A check-in request changes the row only in its write, and only after a
\* location inside the radius.
CheckInChangesOnlyInside(r) ==
    (/\ req'[r] # req[r]
     /\ req'[r].kind = "checkin"
     /\ challenge_participants' # challenge_participants)
    => /\ req[r].pc = "checkin_update"
       /\ req[r].location.coordinates_ok
       /\ req[r].location.distance <= WaypointOf(req[r].waypoint_id).radius_meters

\* C7 as stated: outside the radius too-far and the row unchanged, inside
\* the radius the row becomes (same waypoint, CheckedIn).
C7_CheckIn_AsStated ==
    [][\A r \in Slots :
          /\ CheckInDecision(r)
          /\ CheckInChangesOnlyInside(r)
          /\ (req[r].pc = "checkin_update" /\ req'[r].pc = "idle")
                => /\ RowAfter(r).current_waypoint_id = req[r].waypoint_id
                   /\ RowAfter(r).current_state = "CheckedIn"]_vars

\* C7: a check-in at the participant's current waypoint changes the row
\* only from inside the radius.  Outside it ends too-far, the row
\* (current_state, current_waypoint_id, last_updated) is unchanged and an
\* audit record is written.  Inside, the row becomes (same waypoint,
\* CheckedIn) when the UPDATE succeeds; when the UPDATE fails the request
\* ends with a storage error and the row is unchanged.
C7_CheckIn ==
    [][\A r \in Slots :
          /\ CheckInDecision(r)
          /\ CheckInChangesOnlyInside(r)
          /\ (req[r].pc = "checkin_update" /\ req'[r].pc = "idle")
                => \/ /\ req'[r].result = "CheckedIn"
                      /\ RowAfter(r) = ChallengeParticipant(req[r].waypoint_id,
                                                            "CheckedIn", now)
                   \/ Refused(r, "StorageError")]_vars

\* One check-in ended too-far with its audit record, another stored.
C7_Witness ==
    \E r, q \in Slots :
        /\ req[r].kind = "checkin" /\ req[r].result = "TooFar"
        /\ "checked_in" \in req[r].audited
        /\ req[q].kind = "checkin" /\ req[q].result = "CheckedIn"
        /\ Row(q).current_waypoint_id = req[q].waypoint_id
        /\ Row(q).current_state = "CheckedIn"

\* C8: for an accepted proof at a waypoint that has a successor, the Verified
\* step sets the row to (that waypoint, Verified), the advance step sets it to
\* (the successor, Presented), and in no step does current_waypoint_id move
\* to anything but the successor of the waypoint it was at.
C8_AcceptedAdvances ==
    [][\A r \in Slots :
          LET w == req[r].waypoint_id
          IN  /\ (req[r].pc = "verified_update" /\ req'[r].pc = "advance")
                    => /\ Row(r).current_waypoint_id = w
                       /\ RowAfter(r).current_waypoint_id = w
                       /\ RowAfter(r).current_state = "Verified"
              /\ (req[r].pc = "advance" /\ req'[r].pc = "idle"
                        /\ ~IsLast(WaypointOf(w)))
                    => /\ Follows(WaypointOf(w), WaypointOf(RowAfter(r).current_waypoint_id))
                       /\ RowAfter(r).current_state = "Presented"
              /\ RowAfter(r).current_waypoint_id # Row(r).current_waypoint_id
                    => Follows(WaypointOf(Row(r).current_waypoint_id),
                               WaypointOf(RowAfter(r).current_waypoint_id))]_vars

\* C9: a proof request that the external service answers with a rejected
\* resolution ends there, refused, and has not changed the row in any of its
\* steps; when no other request has written the row since the request read
\* it, the row is still (the waypoint, CheckedIn).
C9_RejectedUnchanged ==
    [][\A r \in Slots :
          /\ (req[r].pc = "validate_image" /\ req'[r].resolution = "rejected")
                => /\ Refused(r, "ProofRejected")
                   /\ Row(r) = req[r].participant
                         => /\ RowAfter(r).current_waypoint_id = req[r].waypoint_id
                            /\ RowAfter(r).current_state = "CheckedIn"
          /\ (req'[r] # req[r] /\ req'[r].kind = "proof"
                    /\ req'[r].resolution \in {"none", "rejected"})
                => challenge_participants' = challenge_participants]_vars

\* A proof was rejected, the row is still CheckedIn at its waypoint, and a
\* second proof for the waypoint has been taken up.
C9_Witness ==
    \E r, q \in Slots :
        /\ req[r].kind = "proof" /\ req[r].resolution = "rejected"
        /\ req[r].result = "ProofRejected"
        /\ Row(r).current_waypoint_id = req[r].waypoint_id
        /\ Row(r).current_state = "CheckedIn"
        /\ Row(r).last_updated = req[r].participant.last_updated
        /\ req[q].pc = "validate_image" /\ req[q].waypoint_id = req[r].waypoint_id

C11_PollTerminates ==
    /\ [](/\ job.status_requests <= 30
          /\ job.status_requests = 30 => job.pc \in {"done", "get_results"}
          /\ job.attempts = 30 => job.pc = "done" /\ job.result = "Timeout")
    /\ (job.pc \in {"check_status", "sleep"}) ~> (job.pc \in {"done", "get_results"})

\* Thirty polls, each answered "in_progress" or "accepted": Timeout.
C11_Witness ==
    /\ job.status_requests = 30 /\ job.attempts = 30 /\ job.waits = 29
    /\ job.result = "Timeout"

\* C12: a status poll answered "failed" ends the job in that step with
\* ValidationFailed, and the job makes no request and no wait afterwards.
C12_FailedEndsJob ==
    [][/\ (job.pc = "check_status" /\ job'.status_requests # job.status_requests
                /\ job'.last_status = "failed")
            => /\ job'.pc = "done" /\ job'.result = "ValidationFailed"
               /\ job'.waits = job.waits /\ job'.results_requests = 0
       /\ job.result = "ValidationFailed" => job' = job]_vars

\* A job that failed on a poll after some waits.
C12_Witness ==
    /\ job.result = "ValidationFailed" /\ job.last_status = "failed"
    /\ job.status_requests = 3 /\ job.waits = 2 /\ job.results_requests = 0

(***************************************************************************)
(* Claims about the validation of waypoint lists.                          *)
(***************************************************************************)

\* The sequence numbers of the list are exactly 1..N, each once.
IsPermutationOfOneToN(w) ==
    /\ \A k \in 1..Len(w) : \E i \in 1..Len(w) : w[i] = k
    /\ \A i \in 1..Len(w) : w[i] \in 1..Len(w)

\* C13: a waypoint list is accepted if and only if it is not empty and its
\* sequence numbers are exactly 1..N, in any order; the empty list fails
\* ValidationFailed and every other rejected list InvalidWaypointSequence.
C13_SequencesValidated ==
    candidate.verdict # "none" =>
        candidate.verdict =
            IF candidate.waypoints = <<>> THEN "ValidationFailed"
            ELSE IF IsPermutationOfOneToN(candidate.waypoints) THEN "Ok"
            ELSE "InvalidWaypointSequence"

\* A list given out of order was accepted.
C13_Witness ==
    /\ candidate.verdict = "Ok"
    /\ Len(candidate.waypoints) = 3
    /\ candidate.waypoints[1] = 3

(***************************************************************************)
(* Starting a challenge.                                                   *)
(***************************************************************************)
\* The error start_challenge owes a snapshot and a user, "none" when it owes
\* none.
StartRefusal(challenge_data, moderator_id) ==
    IF challenge_data.challenge_moderator # moderator_id THEN "NotModerator"
    ELSE IF ~challenge_data.active THEN "ChallengeNotActive"
    ELSE IF challenge_data.actual_start_time # NULL THEN "ChallengeAlreadyStarted"
    ELSE "none"

\* Caller c takes a start_challenge step.
StartsChallenge(c) == call[c].pc = "read" /\ call'[c].moderator_id # NULL

\* C14: start_challenge fails with NotModerator for another user than the
\* moderator, else with ChallengeNotActive on an inactive challenge, else
\* with ChallengeAlreadyStarted on a started one, and goes on otherwise; a
\* call that fails closes and inserts no version, takes no version id, and
\* changes no participant row.
C14_StartRefusals ==
    [][\A c \in Callers :
          StartsChallenge(c) =>
              LET refusal == StartRefusal(call[c].self.challenge, call'[c].moderator_id)
              IN  IF refusal = "none"
                  THEN call'[c].pc = "begun"
                  ELSE /\ call'[c].pc = "idle"
                       /\ call'[c].result = refusal
                       /\ temporal_challenges' = temporal_challenges
                       /\ challenge_version_seq' = challenge_version_seq
                       /\ challenge_participants' = challenge_participants]_vars

\* Another user is refused as such on a challenge that is inactive (its
\* only current version), and the moderator is refused on it as inactive.
C14_Witness ==
    /\ call["c1"].result = "NotModerator"
    /\ call["c1"].overlapped = {}
    /\ call["c2"].result = "ChallengeNotActive"
    /\ \A r \in CurrentRows(temporal_challenges, 1) : ~r.challenge.active
    /\ \E r \in temporal_challenges : r.challenge.actual_start_time # NULL

\* Caller c's start_challenge call returns Ok: its transaction commits.
StartCommits(c) ==
    /\ call[c].pc = "inserted"
    /\ call[c].data.version_notes = "Challenge started"
    /\ call'[c].pc = "idle"
    /\ call'[c].result = "Ok"

\* C15: a start_challenge call that succeeds adds exactly one version to its
\* challenge: the version that was current gets an end_at, and the new
\* current version has the same challenge_id, moderator, active flag and
\* waypoints as that version, an actual_start_time, and the note
\* "Challenge started".
C15_StartAddsOneVersion ==
    [][\A c \in Callers :
          StartCommits(c) =>
              LET id == call[c].self.challenge_id
                  previous == CurrentRows(temporal_challenges, id)
                  added == temporal_challenges' \ temporal_challenges
              IN  /\ Cardinality(VersionsOf(temporal_challenges', id))
                        = Cardinality(VersionsOf(temporal_challenges, id)) + 1
                  /\ \A p \in previous :
                         \E r \in temporal_challenges' :
                             /\ r.challenge_version_id = p.challenge_version_id
                             /\ r.end_at # NULL
                  /\ \E n \in added :
                         /\ CurrentRows(temporal_challenges', id) = {n}
                         /\ n.challenge.actual_start_time # NULL
                         /\ n.challenge.version_notes = "Challenge started"
                         /\ \A p \in previous :
                                /\ n.challenge_id = p.challenge_id
                                /\ n.challenge.challenge_moderator
                                      = p.challenge.challenge_moderator
                                /\ n.challenge.active = p.challenge.active
                                /\ n.challenge.waypoints = p.challenge.waypoints]_vars

(***************************************************************************)
(* Creating a challenge.                                                   *)
(***************************************************************************)
\* Caller c's create_new call takes its challenge_id from the sequence.
TakesId(c) == call[c].pc = "idle" /\ call'[c].pc = "creating"

\* Caller c's create_new call returns Ok.
CreateCommits(c) ==
    call[c].pc = "creating" /\ call'[c].pc = "idle" /\ call'[c].result = "Ok"

\* C16: the challenge_id a create_new call takes is greater than every id
\* taken before it (those of the stored versions, of the creates in
\* progress and of the creates that failed), and a create_new call that
\* succeeds adds exactly one version, under that id, which no stored version
\* has; the version is current, not started and active.
C16_CreateIsFresh ==
    [][\A c \in Callers :
          /\ TakesId(c) =>
                 LET id == call'[c].self.challenge_id
                 IN  /\ \A r \in temporal_challenges : r.challenge_id < id
                     /\ \A q \in Callers : call[q].self.challenge_id < id
          /\ CreateCommits(c) =>
                 LET id == call[c].self.challenge_id
                     added == temporal_challenges' \ temporal_challenges
                 IN  /\ temporal_challenges \subseteq temporal_challenges'
                     /\ Cardinality(added) = 1
                     /\ VersionsOf(temporal_challenges, id) = {}
                     /\ call'[c].self.challenge_id = id
                     /\ \A n \in added :
                            /\ n.challenge_id = id
                            /\ n.challenge_version_id = call'[c].version
                            /\ n.end_at = NULL
                            /\ n.challenge.actual_start_time = NULL
                            /\ n.challenge.active]_vars

\* Two creates ran at the same time and the one that took the first id
\* failed: the only challenge stored has the second id.
C16_Witness ==
    /\ call["c1"].result = "DatabaseError"
    /\ call["c1"].self.challenge_id = 1
    /\ call["c2"].result = "Ok"
    /\ call["c2"].self.challenge_id = 2
    /\ {r.challenge_id : r \in temporal_challenges} = {2}

\* JSON value `value` is the number n, the string str, the optional number o.
IsNumber(value, n) == value.json = "number" /\ value.v = n
IsString(value, str) == value.json = "string" /\ value.v = str
IsOption(value, o) == IF o = NULL THEN value.json = "null" ELSE IsNumber(value, o)

ClosedEndOnly(r) == {[r EXCEPT !.end_at = end] : end \in 1..(MaxTime + 1)}
ClosedEndAndUpdated(r) ==
    {[r EXCEPT !.end_at = end, !.updated_at = end] : end \in 1..(MaxTime + 1)}

\* Row r after a step: it is there as it was, or it was current and one of
\* the rows `closed` is there.
Kept(r, after, closed) ==
    r \in after \/ (r.end_at = NULL /\ closed \cap after # {})

\* get_by_version_id returns, for every version stored, one row with the
\* payload it had.
SamePayloadByVersion ==
    \A r \in temporal_challenges :
        \A n \in get_by_version_id(temporal_challenges', r.challenge_version_id) :
            n.challenge = r.challenge

\* C18 as stated: a stored version is never deleted and never changes,
\* except that its end_at goes once from NULL to a timestamp, and nothing
\* else of the row changes with it.
C18_VersionsImmutable_AsStated ==
    [][/\ \A r \in temporal_challenges : Kept(r, temporal_challenges', ClosedEndOnly(r))
       /\ SamePayloadByVersion]_vars

\* C18: a stored version is never deleted; its challenge_id, version id,
\* payload and start_at never change; its end_at goes at most once from
\* NULL to a timestamp, and updated_at is set to that timestamp in the same
\* step; get_by_version_id keeps returning one row with the same payload.
C18_VersionsImmutable ==
    [][/\ \A r \in temporal_challenges :
              /\ Kept(r, temporal_challenges', ClosedEndAndUpdated(r))
              /\ Cardinality(get_by_version_id(temporal_challenges',
                                               r.challenge_version_id)) = 1
       /\ SamePayloadByVersion]_vars

\* A version that was superseded by an edit, and still has its payload
\* after the version that superseded it was itself superseded.
C18_Witness ==
    \E r, n \in temporal_challenges :
        /\ r.challenge_id = n.challenge_id
        /\ r.challenge.version_notes = "Initial version"
        /\ r.end_at # NULL /\ r.updated_at = r.end_at /\ r.updated_at # r.start_at
        /\ ~n.challenge.active /\ n.end_at # NULL

(***************************************************************************)
(* Audit records and failed writes.                                        *)
(***************************************************************************)
\* The answer of the handler to a proof, by the resolution of the service.
ProofAnswer(resolution) ==
    CASE resolution = "accepted" -> "Verified"
      [] resolution = "rejected" -> "ProofRejected"
      [] OTHER -> "ImageServiceUnavailable"

\* Slot r takes a step from `pc` in which, or before which in the same
\* request, an audit record was written, with or without success.
AuditedStep(r, pc) ==
    req[r].pc = pc /\ req'[r] # req[r] /\ req'[r].audited # {}

\* C19: what a request answers and what it does to the participant row are
\* fixed by the location, the resolution and the row writes alone, in every
\* step that writes an audit record and in every step after it, whether the
\* audit writes succeeded or failed.
C19_AuditIsIndependent ==
    [][\A r \in Slots :
          LET t == req'[r]
              same == RowAfter(r) = Row(r)
              written(w, state) == RowAfter(r) = ChallengeParticipant(w, state, now)
          IN  /\ (AuditedStep(r, "idle") /\ t.kind = "checkin") =>
                     /\ same
                     /\ t.audited = {"checked_in"}
                     /\ \E waypoint \in WaypointsById(t.waypoint_id) :
                            IF is_valid(t.location.distance, waypoint.radius_meters)
                            THEN t.pc = "checkin_update" /\ t.result = "none"
                            ELSE t.pc = "idle" /\ t.result = "TooFar"
              /\ AuditedStep(r, "checkin_update") =>
                     /\ t.pc = "idle"
                     /\ \/ t.result = "CheckedIn" /\ written(t.waypoint_id, "CheckedIn")
                        \/ t.result = "StorageError" /\ same
              /\ (AuditedStep(r, "idle") /\ t.kind = "proof") =>
                     same /\ t.pc = "validate_image" /\ t.audited = {"proof_submitted"}
              /\ AuditedStep(r, "validate_image") =>
                     /\ same
                     /\ IF t.resolution = "accepted"
                        THEN t.pc = "verified_update" /\ t.audited = {"proof_submitted"}
                        ELSE /\ t.pc = "idle" /\ t.result = ProofAnswer(t.resolution)
                             /\ t.audited = {"proof_submitted", "verified"}
              /\ AuditedStep(r, "verified_update") =>
                     /\ t.pc = "advance"
                     /\ same \/ written(t.waypoint_id, "Verified")
              /\ AuditedStep(r, "advance") =>
                     /\ t.pc = "idle" /\ t.result = ProofAnswer(t.resolution)
                     /\ t.audited = {"proof_submitted", "verified"}
                     /\ IF t.advanced = "Some"
                        THEN \E next \in waypoints :
                                 written(next.waypoint_id, "Presented")
                        ELSE same]_vars

\* A proof was verified and the participant moved on although the audit
\* writes of the request failed.
C19_Witness ==
    \E r \in Slots :
        /\ req[r].audit_failed
        /\ req[r].result = "Verified"
        /\ req[r].advanced = "Some"
        /\ Row(r).current_state = "Presented"
        /\ Row(r).current_waypoint_id # req[r].waypoint_id

\* C20: a request that answers CHECKED_IN or VERIFIED has stored its
\* transition: a check-in has written the row, and a verified proof has
\* written the Verified state and, where there is a next waypoint, the
\* advance to it.
C20_SuccessMeansStored ==
    [][\A r \in Slots :
          (req'[r] # req[r] /\ req'[r].pc = "idle") =>
              /\ req'[r].result = "CheckedIn" =>
                     RowAfter(r) = ChallengeParticipant(req'[r].waypoint_id, "CheckedIn", now)
              /\ req'[r].result = "Verified" =>
                     /\ req'[r].participant.current_state = "Verified"
                     /\ req'[r].advanced # "Err"]_vars

(***************************************************************************)
(* The outcome of a proof and concurrent requests.                         *)
(***************************************************************************)
\* C21: the outcome of an accepted proof reaches the participant row in one
\* update: the row is never (waypoint, Verified) at a waypoint that has a
\* successor, neither between the writes of the request nor after it.
C21_AcceptedIsAtomic ==
    \A p \in Participants :
        LET row == challenge_participants[p]
        IN  row.current_state = "Verified" => IsLast(WaypointOf(row.current_waypoint_id))

\* Request slot r holds a check-in for waypoint w that has ended, made from
\* inside the radius while the row it read was at w.
CheckedInFromInside(r, w) ==
    /\ req[r].pc = "idle" /\ req[r].kind = "checkin" /\ req[r].waypoint_id = w
    /\ req[r].participant.current_waypoint_id = w
    /\ req[r].location.coordinates_ok
    /\ req[r].location.distance <= WaypointOf(w).radius_meters

\* Two check-ins for waypoint w that ran at the same time: both read the
\* row before either wrote it.
ConcurrentCheckIns(r, q, w) ==
    /\ r # q /\ SlotParticipant[r] = SlotParticipant[q]
    /\ CheckedInFromInside(r, w) /\ CheckedInFromInside(q, w)
    /\ req[r].participant = req[q].participant

C23_DecisionIsDistance ==
    (fix.pc = "done" /\ fix.result = "Ok") =>
        /\ fix.distance = calculate_distance(fix.target, fix.current).distance
        /\ fix.is_valid = f64_le(fix.distance, fix.radius_meters)
        /\ fix.distance = fix.radius_meters => fix.is_valid

C23_Witness ==
    /\ fix.pc = "done" /\ fix.result = "Ok"
    /\ fix.distance = fix.radius_meters /\ fix.distance > 0 /\ fix.is_valid
    /\ ~is_within_bounding_box(fix.target, fix.current, fix.radius_meters)

InRange(location) ==
    /\ f64_le(-90, location.lat) /\ f64_le(location.lat, 90)
    /\ f64_le(-180, location.lon) /\ f64_le(location.lon, 180)

NothingSent(t) ==
    ~t.submitted /\ t.status_requests = 0 /\ t.results_requests = 0 /\ t.request_ids = {}

\* C26: a call of validate_image whose path contains ".." or starts with "/"
\* ends with InvalidImagePath and sends nothing: no validate, status or
\* results request; and InvalidImagePath is the result of such a call only.
C26_InvalidPathSendsNothing ==
    /\ (job.pc # "idle" /\ (job.image_path.dotdot \/ job.image_path.absolute)) =>
           job.pc = "done" /\ job.result = "InvalidImagePath" /\ NothingSent(job)
    /\ job.result = "InvalidImagePath" =>
           (job.image_path.dotdot \/ job.image_path.absolute) /\ NothingSent(job)

C26_Witness ==
    /\ job.pc = "done" /\ job.result = "InvalidImagePath"
    /\ job.image_path = [dotdot |-> FALSE, absolute |-> TRUE]
    /\ NothingSent(job)

C29_RequestsInOrder ==
    /\ [](/\ job.status_requests > 0 => job.submitted
          /\ job.results_requests <= 1
          /\ job.results_requests = 1 =>
                 job.last_status = "completed" /\ job.status_requests > 0
          /\ job.request_ids \subseteq {job.processing_id}
          /\ job.pc # "idle" => job.processing_id \notin job.earlier)
    /\ [][/\ (~job.submitted /\ job'.submitted) =>
                 job.status_requests = 0 /\ job.results_requests = 0
          /\ (job.submitted /\ job'.earlier = job.earlier) => job'.submitted
          /\ (job.pc = "submit_validation" /\ job' # job) => ~job.submitted
          /\ job'.results_requests > job.results_requests =>
                 job.last_status = "completed" /\ job.pc = "get_results"]_vars

\* A second call that ran to its resolution.
C29_Witness ==
    /\ job.earlier # {} /\ job.pc = "done" /\ job.result = "accepted"
    /\ job.submitted /\ job.status_requests = 2 /\ job.results_requests = 1
    /\ job.request_ids = {job.processing_id}

\* What validate_image returns after an error of the external service.
ServiceErrors ==
    {"ServiceUnavailable", "RequestFailed", "Timeout", "ValidationFailed",
     "UnexpectedResponse"}

\* C27: a proof submission whose job ends in an error of the external service
\* leaves the participant row as it was, CheckedIn at the same waypoint, and
\* is answered with an error; the next proof submission for that waypoint is
\* admitted, and its job has a processing_id that no earlier job had.
C27_ServiceErrorChangesNothing ==
    /\ [](job.pc # "idle" => job.processing_id \notin job.earlier)
    /\ [][LET t == req["r1"]
              u == req'["r1"]
          IN  /\ (t.pc = "validate_image" /\ job.result \in ServiceErrors) =>
                     /\ challenge_participants' = challenge_participants
                     /\ Row("r1").current_waypoint_id = t.waypoint_id
                     /\ Row("r1").current_state = "CheckedIn"
                     /\ u # t => u.pc = "idle" /\ u.result = "ImageServiceUnavailable"
              /\ (/\ t.pc = "idle" /\ t.result = "ImageServiceUnavailable"
                  /\ t.resolution = "ServiceError"
                  /\ u # t /\ u.kind = "proof" /\ u.waypoint_id = t.waypoint_id
                  /\ u.result # "InvalidImage") =>
                     u.pc = "validate_image" /\ job.pc = "idle"]_vars

\* After a job that ended in an error, the next submission's job ran under another id.
C27_Witness ==
    /\ job.previous = "ServiceError" /\ job.earlier # {}
    /\ job.pc = "done" /\ job.result = "accepted"
    /\ job.request_ids = {job.processing_id} /\ job.processing_id \notin job.earlier
    /\ req["r1"].pc = "validate_image" /\ req["r1"].kind = "proof"
    /\ Row("r1").current_waypoint_id = req["r1"].waypoint_id
    /\ Row("r1").current_state = "CheckedIn"

\* The step is a write of proof request r, whose job the external service
\* answered "accepted" and which read the row as (its waypoint, CheckedIn).
AcceptedProofWrites(r) ==
    /\ req[r].kind = "proof" /\ req[r].resolution = "accepted" /\ req[r].sent
    /\ req[r].pc \in {"verified_update", "advance"} /\ req'[r].pc # req[r].pc
    /\ req[r].participant.current_waypoint_id = req[r].waypoint_id
    /\ req[r].pc = "verified_update" => req[r].participant.current_state = "CheckedIn"

\* The row goes to Verified or to a waypoint later in the sequence.
BecomesVerifiedOrLater(before, after) ==
    /\ after # before
    /\ \/ after.current_state = "Verified"
       \/ WaypointOf(after.current_waypoint_id).waypoint_sequence >
              WaypointOf(before.current_waypoint_id).waypoint_sequence

\* C30: a participant's row becomes Verified, or moves to a later waypoint,
\* only by a write of a proof submission whose job the external service
\* answered "accepted" and which read the row as (that waypoint, CheckedIn);
\* a request whose job got any other answer writes nothing.
C30_OnlyAcceptedAdvances ==
    [][/\ \A p \in Participants :
              BecomesVerifiedOrLater(challenge_participants[p], challenge_participants'[p])
                  => \E r \in Slots : SlotParticipant[r] = p /\ AcceptedProofWrites(r)
       /\ \A r \in Slots :
              (req[r].pc = "validate_image" /\ req'[r] # req[r]
                    /\ req'[r].resolution # "accepted")
                  => /\ req'[r].pc = "idle"
                     /\ challenge_participants' = challenge_participants]_vars

\* The sequence number of the waypoint a row stands at.
SequenceOf(row) == WaypointOf(row.current_waypoint_id).waypoint_sequence

\* C31: the sequence number of a participant's current waypoint never
\* decreases, whatever the interleaving of the participant's check-in and
\* proof requests: no write puts an earlier waypoint back.
C31_SequenceNeverDecreases ==
    [][\A p \in Participants :
          SequenceOf(challenge_participants'[p]) >= SequenceOf(challenge_participants[p])]_vars

\* Proof request r for waypoint w was accepted and has advanced the row.
AdvancedFrom(r, w) ==
    /\ req[r].pc = "idle" /\ req[r].kind = "proof" /\ req[r].waypoint_id = w
    /\ req[r].resolution = "accepted" /\ req[r].advanced = "Some"

\* C32: a participant never skips a waypoint: every change of
\* current_waypoint_id goes from the waypoint of sequence s to the one of
\* sequence s + 1 of the same challenge, and after two concurrent accepted
\* proofs of one waypoint the participant stands at s + 1.
C32_NeverSkips ==
    /\ [][\A p \in Participants :
              LET before == challenge_participants[p].current_waypoint_id
                  after == challenge_participants'[p].current_waypoint_id
              IN  after # before => Follows(WaypointOf(before), WaypointOf(after))]_vars
    /\ [](\A r, q \in Slots : \A w \in WaypointIds :
              (r # q /\ AdvancedFrom(r, w) /\ AdvancedFrom(q, w))
                  => Follows(WaypointOf(w), WaypointOf(Row(r).current_waypoint_id)))

\* The participant has completed the hunt: Verified at the final waypoint.
Completed(row) ==
    row.current_state = "Verified" /\ IsLast(WaypointOf(row.current_waypoint_id))

\* C33: completion is terminal: once a participant is Verified at the final
\* waypoint of its challenge, no check-in and no proof submission changes the
\* participant row.
C33_CompletionIsTerminal ==
    [][\A p \in Participants :
          Completed(challenge_participants[p])
              => challenge_participants'[p] = challenge_participants[p]]_vars

\* The request of caller c ends in this step with `result`.
LegacyEnds(c, result) ==
    legacy.call[c].pc # "idle" /\ legacy'.call[c].pc = "idle" /\ legacy'.call[c].result = result

\* C34: a challenge is started at most once: once actual_start_time is set
\* no step changes it, no start request succeeds, and no start request
\* resets the participants; so with two concurrent start requests too.
C34_StartedAtMostOnce ==
    [][legacy.challenge.actual_start_time # NULL
          => /\ legacy'.challenge.actual_start_time = legacy.challenge.actual_start_time
             /\ \A c \in Callers :
                   /\ ~LegacyEnds(c, "Started")
                   /\ legacy.call[c].pc = "start"
                          => legacy'.participants = legacy.participants]_vars


\* C35: while the challenge is started and has a waypoint, every one of its
\* participants has a current waypoint: those enrolled before the start,
\* and those invited after it.
C35_StartedParticipantsHaveWaypoint ==
    (legacy.challenge.actual_start_time # NULL /\ get_first_waypoint("A") # {})
        => \A p \in legacy.participants : p.current_waypoint_id # NULL

\* What the start does for those enrolled before it: in the step that sets
\* actual_start_time, every participant becomes (first waypoint, Presented).
C35_StartPresentsFirst ==
    [][legacy'.challenge.actual_start_time # legacy.challenge.actual_start_time
          => /\ legacy.participants # {} => legacy'.participants # {}
             /\ \A p \in legacy'.participants :
                   /\ p.current_state = "Presented"
                   /\ \E w \in get_first_waypoint("A") : p.current_waypoint_id = w.waypoint_id]_vars


\* The rows of challenge_participants of one user in the challenge.
RowsOf(user_id) == {p \in legacy.participants : p.user_id = user_id}

\* C36: a challenge has at most one participant row for a user: an
\* invitation of a user who is a participant ends with AlreadyParticipant
\* and inserts nothing, and two concurrent invitations of one user leave
\* one row.
C36_OneRowPerUser ==
    /\ [](\A u \in Users : Cardinality(RowsOf(u)) <= 1)
    /\ [][\A c \in Callers :
             (legacy.call[c].pc = "invite" /\ RowsOf(legacy.call[c].user_id) # {})
                 => (legacy'.call[c].pc = "invite"
                     \/ (LegacyEnds(c, "AlreadyParticipant")
                         /\ legacy'.participants = legacy.participants))]_vars

\* The sequential half of C36: the SELECT of an invitation that finds the
\* user enrolled ends the invitation with AlreadyParticipant.
C36_ExistingIsRefused ==
    [][\A c \in Callers :
          (legacy.call[c].pc = "invite" /\ RowsOf(legacy.call[c].user_id) # {})
              => (legacy'.call[c].pc = "invite"
                  \/ (LegacyEnds(c, "AlreadyParticipant")
                      /\ legacy'.participants = legacy.participants))]_vars


\* C38: a request that names a challenge id returned by create_challenge
\* (get_challenge, invite_participant, start_challenge) never answers that
\* the challenge is not found.
C38_CreatedIsFound ==
    \A c \in Callers :
        (legacy.call[c].kind \in {"get", "start", "invite"}
           /\ legacy.call[c].challenge_id \in legacy.returned)
            => legacy.call[c].result # "ChallengeNotFound"


\* The challenge of the participants is over, or is not active.
Closed == is_ended(legacy.challenge, now) \/ ~legacy.challenge.active

\* C37: once the challenge has ended (now > actual_start_time +
\* duration_minutes), and while it is not active, no step of a check-in or
\* of a proof submission changes a participant row.
C37_TimeBoxed ==
    [][Closed => challenge_participants' = challenge_participants]_vars


\* The versions of challenge id that were superseded.
Superseded(id) == {r \in VersionsOf(temporal_challenges, id) : r.end_at # NULL}

\* Version r ends before version q starts (half-open intervals).
EndsBefore(r, q) == r.end_at # NULL /\ r.end_at <= q.start_at

\* C39: the versions of one challenge cover time with half-open intervals,
\* without overlap or gap: a superseded version has start_at <= end_at, its
\* end_at is the start_at of another version of the challenge (the one
\* that superseded it), and of two versions one ends before the other
\* starts.
C39_VersionsCoverTime ==
    \A id \in 1..MaxChallenges :
        /\ \A r \in Superseded(id) :
              /\ r.start_at <= r.end_at
              /\ \E q \in VersionsOf(temporal_challenges, id) :
                    q # r /\ q.start_at = r.end_at
        /\ \A r, q \in VersionsOf(temporal_challenges, id) :
              r # q => (EndsBefore(r, q) \/ EndsBefore(q, r))

\* The parts of C39, one by one.
C39_StartBeforeEnd ==
    \A id \in 1..MaxChallenges : \A r \in Superseded(id) : r.start_at <= r.end_at

C39_EndIsNextStart ==
    \A id \in 1..MaxChallenges : \A r \in Superseded(id) :
        \E q \in VersionsOf(temporal_challenges, id) : q # r /\ q.start_at = r.end_at

C39_NoOverlap ==
    \A id \in 1..MaxChallenges : \A r, q \in VersionsOf(temporal_challenges, id) :
        r # q => (EndsBefore(r, q) \/ EndsBefore(q, r))

====
